---- MODULE Spec2Model ----
(***************************************************************************)
(* Model of the access-control engine of rust-auth-service                 *)
(* (access-control/src/lib.rs), of the PostgreSQL backend it is used with  *)
(* (database-integration/src) and of the callers that drive it            *)
(* (middleware/src/lib.rs, src/routes.rs).                                 *)
(*                                                                         *)
(* A "sequence" is one logical use of the engine: AccessControl::new,      *)
(* one call on the Start handle, then authorize and get_user.  The async   *)
(* calls of the engine are split at their single await: the call step      *)
(* moves the handle into the future, the return step runs the backend      *)
(* query and the synchronous code after it.                                *)
(*                                                                         *)
(* Option<T> is modelled as a set with at most one element.                *)
(***************************************************************************)
EXTENDS Integers, Sequences, FiniteSets, TLC

----------------------------------------------------------------------------
(* Bounds of the model *)

\* number of concurrently running sequences
NumSeq == 2
\* number of rows the users table may hold (SERIAL user_id runs 1..MaxUsers)
MaxUsers == 1
\* number of rows the users table may hold when the queries of the store
\* are called directly
StoreMaxUsers == 2
\* number of distinct random salts SaltString::generate may draw
MaxSalt == 1
\* minutes the database clock may advance
MaxTime == 6

Seqs == 1..NumSeq

----------------------------------------------------------------------------
(* Option *)

None == {}
Some(x) == {x}
Unwrap(o) == CHOOSE x \in o : TRUE

----------------------------------------------------------------------------
(* Strings: usernames are sequences of characters, passwords are           *)
(* identified by their length in characters and a tag telling apart        *)
(* different passwords of the same length.                                 *)

\* Characters: "a", "k" lower-case ASCII letters, "A" upper-case ASCII
\* letter, "@" ASCII punctuation, "KELVIN" the Kelvin sign U+212A (not
\* ASCII, its lower case is the ASCII letter k), "E_ACUTE" the letter U+00E9
\* (alphabetic, lower case, not ASCII)
Usernames ==
    { <<>>, <<"a">>, <<"A">>, <<"@">>, <<"KELVIN">>, <<"E_ACUTE">>, <<"a", "@">> }

Pw(len, tag) == [len |-> len, tag |-> tag]
EmptyPassword == Pw(0, 0)
Passwords ==
    { EmptyPassword, Pw(11, 0), Pw(12, 0), Pw(12, 1), Pw(256, 0), Pw(257, 0) }

SessionIds == { "t1", "t2" }

Capabilities == { "UserRead", "AdminRead" }

to_lowercase_char(c) ==
    IF c = "A" THEN "a" ELSE IF c = "KELVIN" THEN "k" ELSE c
to_lowercase(s) == [i \in DOMAIN s |-> to_lowercase_char(s[i])]
is_ascii_alphanumeric(c) == c \in {"a", "A", "k"}
chars_count(p) == p.len

----------------------------------------------------------------------------
(* Argon2 / PHC strings.  A stored password_hash is either a PHC string    *)
(* produced by hashing a password with a salt, or some other text (kind    *)
(* "raw": routes.rs stores the submitted password itself; the passwords    *)
(* of the model are not themselves PHC strings).  Argon2 is taken to be    *)
(* collision free: a hash is determined by, and determines, the password   *)
(* and the salt.                                                           *)

\* password policy of AccessControl::register and of do_register
MinPasswordLen == 12
MaxPasswordLen == 256

\* INTERVAL '5 minutes' of INSERT_SESSION
SessionLifetime == 5

\* the salt "saltsaltsaltsalt" of FAKE_PHC_HASH
FixedSalt == 0
Salts == 1..MaxSalt

hash_password_simple(password, salt) ==
    [kind |-> "phc", pw |-> password, salt |-> salt]
RawText(password) == [kind |-> "raw", pw |-> password, salt |-> FixedSalt]

\* The PHC hash is derived from an empty password.
FAKE_PHC_HASH == hash_password_simple(EmptyPassword, FixedSalt)

\* PasswordHash::new : Result as Option
PasswordHash_new(s) == IF s.kind = "phc" THEN Some(s) ELSE None
unwrap_or(o, d) == IF o = None THEN d ELSE Unwrap(o)

\* a verification that compares the lengths only
verify_password_length_only(password, parsed_hash) ==
    chars_count(password) = chars_count(parsed_hash.pw)

\* Argon2::verify_password: recompute the hash of the password under the
\* salt of the parsed hash and compare
verify_password(password, parsed_hash) ==
    hash_password_simple(password, parsed_hash.salt) = parsed_hash

----------------------------------------------------------------------------
(* State *)

VARIABLES
    users,          \* table users: rows [user_id, username, password_hash]
    capabilities,   \* table capabilities: rows [label, user_id]
    sessions,       \* table sessions: rows [session_id, user_id, expiration_date]
    db_up,          \* whether the connection pool reaches the database
    now,            \* NOW() of the database, in minutes
    handle,         \* per sequence: Option of the AccessControl value it owns
    pc,             \* per sequence: the await the sequence is suspended at
    args,           \* per sequence: arguments of the call in flight
    log             \* per sequence: the calls completed so far, oldest first

vars == <<users, capabilities, sessions, db_up, now, handle, pc, args, log>>
backend_vars == <<users, capabilities, sessions, db_up, now>>

----------------------------------------------------------------------------
(* database-integration: the queries of user.rs on the tables *)

\* struct User, built from a users row and the capabilities rows of its id
User(dbuser, caps) ==
    [user_id |-> dbuser.user_id,
     username |-> dbuser.username,
     password_hash |-> dbuser.password_hash,
     capabilities |-> {c.label : c \in {r \in caps : r.user_id = dbuser.user_id}}]

\* a lookup whose capability query has lost its WHERE user_id = $1
look_up_user_any_capabilities(up, utab, ctab, username) ==
    IF ~up THEN None
    ELSE LET rows == {r \in utab : r.username = username}
         IN IF rows = {} THEN None
            ELSE Some([User(CHOOSE r \in rows : TRUE, ctab)
                         EXCEPT !.capabilities = {c.label : c \in ctab}])

\* User::look_up_user as used through Backend::get_user: Result collapsed
\* by .ok() to an Option.  SELECT_USER and SELECT_CAPABILITIES are taken as
\* one read of the tables.
look_up_user(up, utab, ctab, username) ==
    IF ~up THEN None
    ELSE LET rows == {r \in utab : r.username = username}
         IN IF rows = {} THEN None
            ELSE Some(User(CHOOSE r \in rows : TRUE, ctab))

\* a backend shared so that every pending get_user is answered with the
\* lookup the first pending call asked for
Backend_get_user_crossed(username) ==
    LET pending == {s \in DOMAIN pc : pc[s] = "authenticate_creds"}
        first == CHOOSE s \in pending : \A t \in pending : s <= t
    IN IF pending = {} THEN None
       ELSE look_up_user(db_up, users, capabilities, args[first].username)

\* PostgreSqlBackend::get_user
Backend_get_user(username) == look_up_user(db_up, users, capabilities, username)

\* an INSERT .. ON CONFLICT (username) DO UPDATE: a second registration
\* replaces the stored hash
register_user_upsert(up, utab, username, password_hash) ==
    IF ~up THEN None
    ELSE IF \E r \in utab : r.username = username
    THEN Some({IF r.username = username
               THEN [r EXCEPT !.password_hash = password_hash] ELSE r : r \in utab})
    ELSE Some(utab \cup {[user_id |-> Cardinality(utab) + 1,
                          username |-> username,
                          password_hash |-> password_hash]})

\* INSERT_USER under the UNIQUE constraint on username and the SERIAL id:
\* the set of rows after the statement, or None when the statement failed
register_user(up, utab, username, password_hash) ==
    IF ~up \/ \E r \in utab : r.username = username THEN None
    ELSE Some(utab \cup {[user_id |-> Cardinality(utab) + 1,
                          username |-> username,
                          password_hash |-> password_hash]})

\* a session lookup that selects a user without joining on the user_id of
\* the session
look_up_user_from_session_any_user(up, utab, ctab, stab, t, session_id) ==
    IF ~up THEN None
    ELSE LET live == {x \in stab : x.session_id = session_id /\ x.expiration_date > t}
         IN IF live = {} \/ utab = {} THEN None
            ELSE Some(User(CHOOSE r \in utab : \A q \in utab : r.user_id <= q.user_id,
                           ctab))

\* a session lookup that still takes a session at its expiration date
look_up_user_from_session_inclusive(up, utab, ctab, stab, t, session_id) ==
    IF ~up THEN None
    ELSE LET ids == {r.user_id : r \in {x \in stab : x.session_id = session_id
                                                    /\ x.expiration_date >= t}}
             rows == {r \in utab : r.user_id \in ids}
         IN IF rows = {} THEN None
            ELSE Some(User(CHOOSE r \in rows : TRUE, ctab))

\* SELECT_USER_BY_SESSION_ID and SELECT_CAPABILITIES, collapsed by .ok()
look_up_user_from_session(up, utab, ctab, stab, t, session_id) ==
    IF ~up THEN None
    ELSE LET ids == {r.user_id : r \in {x \in stab : x.session_id = session_id
                                                    /\ x.expiration_date > t}}
             rows == {r \in utab : r.user_id \in ids}
         IN IF rows = {} THEN None
            ELSE Some(User(CHOOSE r \in rows : TRUE, ctab))

\* PostgreSqlBackend::get_user_from_session
Backend_get_user_from_session(session_id) ==
    look_up_user_from_session(db_up, users, capabilities, sessions, now, session_id)

\* an INSERT .. ON CONFLICT (session_id) DO UPDATE: a stored session id is
\* bound anew to the user of the call
store_session_rebinding(up, utab, stab, t, user, session_id) ==
    IF ~up \/ ~(\E r \in utab : r.user_id = user.user_id)
    THEN None
    ELSE Some({r \in stab : r.session_id # session_id}
              \cup {[session_id |-> session_id,
                     user_id |-> user.user_id,
                     expiration_date |-> t + SessionLifetime]})

\* INSERT_SESSION under PRIMARY KEY session_id and the foreign key on
\* user_id: the rows after the statement, or None when it failed
store_session(up, utab, stab, t, user, session_id) ==
    IF ~up \/ (\E r \in stab : r.session_id = session_id)
           \/ ~(\E r \in utab : r.user_id = user.user_id)
    THEN None
    ELSE Some(stab \cup {[session_id |-> session_id,
                          user_id |-> user.user_id,
                          expiration_date |-> t + SessionLifetime]})

\* a DELETE that names the user of the session instead of the session:
\* every session of that user goes
remove_session_of_user(up, stab, session_id) ==
    IF ~up THEN None
    ELSE Some({r \in stab :
                 ~(\E q \in stab : q.session_id = session_id /\ q.user_id = r.user_id)})

\* DELETE_SESSION: the rows after the statement, or None when it failed
remove_session(up, stab, session_id) ==
    IF ~up THEN None
    ELSE Some({r \in stab : r.session_id # session_id})

----------------------------------------------------------------------------
(* access-control: the engine *)

\* AccessControl { state, backend, user }; the backend handle is the one
\* shared database and is not stored per value
AccessControl(state, user) == [state |-> state, user |-> user]

\* AccessControl::new
new == AccessControl("Start", None)

\* Result<AccessControl<..>, Error>, or the panic that replaced it
Ok(h) == [tag |-> "Ok", handle |-> Some(h), error |-> "none"]
Err(e) == [tag |-> "Err", handle |-> None, error |-> e]
Panic(msg) == [tag |-> "Panic", handle |-> None, error |-> msg]

\* the backend and argon2 calls one engine call made
Calls(lookup, session_lookup, insert, verify, hash) ==
    [get_user |-> lookup, get_user_from_session |-> session_lookup,
     register_user |-> insert, verify_password |-> verify, hash_password |-> hash]

\* AccessControl::authenticate_creds after `self.backend.get_user(..).await`
\* has produced `user`
authenticate_creds(self, user, password) ==
    LET fake_parsed_hash == Unwrap(PasswordHash_new(FAKE_PHC_HASH))
        parsed_hash ==
            IF user # None
            THEN unwrap_or(PasswordHash_new(Unwrap(user).password_hash), fake_parsed_hash)
            ELSE fake_parsed_hash
    IN IF verify_password(password, parsed_hash)
       THEN Ok(AccessControl("Authenticated", user))
       ELSE Err("Authentication")

\* an authenticate_creds that returns early when the user does not exist
authenticate_creds_calls_early_return(user) ==
    IF user = None THEN Calls(1, 0, 0, 0, 0) ELSE Calls(1, 0, 0, 1, 0)

\* what authenticate_creds calls: get_user once, then verify_password once
\* on every path; the fake hash is a constant that is only parsed
authenticate_creds_calls(user) == Calls(1, 0, 0, 1, 0)

\* what authenticate_session calls: get_user_from_session once
authenticate_session_calls(user) == Calls(0, 1, 0, 0, 0)

\* a register that tries the insertion a second time when it failed
register_calls_retrying(backend_result) ==
    IF backend_result = None THEN Calls(0, 0, 2, 0, 1) ELSE Calls(0, 0, 1, 0, 1)

\* what register calls once the policy is passed: hash_password_simple
\* once, then register_user once, whatever it answers
register_calls(backend_result) == Calls(0, 0, 1, 0, 1)

\* an authenticate_session that hands out the handle of the last phase
authenticate_session_skipping(self, user) ==
    IF user = None
    THEN Err("Authentication")
    ELSE Ok(AccessControl("Authorized", Some(Unwrap(user))))

\* an authenticate_session without the ok_or: the answer of the backend is
\* wrapped as it comes
authenticate_session_unchecked(self, user) ==
    Ok(AccessControl("Authenticated", user))


\* AccessControl::authenticate_session after
\* `self.backend.get_user_from_session(..).await` has produced `user`
authenticate_session(self, user) ==
    IF user = None
    THEN Err("Authentication")
    ELSE Ok(AccessControl("Authenticated", Some(Unwrap(user))))

\* a password check whose lower limit is one character too low
register_policy_short_password(username, password) ==
    LET name == to_lowercase(username)
    IN IF name = <<>> \/ ~(\A i \in DOMAIN name : is_ascii_alphanumeric(name[i]))
       THEN Some("UsernamePolicy")
       ELSE IF chars_count(password) < MinPasswordLen - 1
               \/ chars_count(password) > MaxPasswordLen
            THEN Some("PasswordPolicy")
            ELSE None

\* an identifier check that, like the form check of the /register route,
\* lets the empty identifier through
register_policy_no_empty_check(username, password) ==
    LET name == to_lowercase(username)
    IN IF ~(\A i \in DOMAIN name : is_ascii_alphanumeric(name[i]))
       THEN Some("UsernamePolicy")
       ELSE IF chars_count(password) < MinPasswordLen
               \/ chars_count(password) > MaxPasswordLen
            THEN Some("PasswordPolicy")
            ELSE None

\* a password check that rejects the longest password the policy allows
register_policy_long_password(username, password) ==
    LET name == to_lowercase(username)
    IN IF name = <<>> \/ ~(\A i \in DOMAIN name : is_ascii_alphanumeric(name[i]))
       THEN Some("UsernamePolicy")
       ELSE IF chars_count(password) < MinPasswordLen
               \/ chars_count(password) >= MaxPasswordLen
            THEN Some("PasswordPolicy")
            ELSE None

\* the two checks in the other order
register_policy_password_first(username, password) ==
    LET name == to_lowercase(username)
    IN IF chars_count(password) < MinPasswordLen
          \/ chars_count(password) > MaxPasswordLen
       THEN Some("PasswordPolicy")
       ELSE IF name = <<>> \/ ~(\A i \in DOMAIN name : is_ascii_alphanumeric(name[i]))
            THEN Some("UsernamePolicy")
            ELSE None

\* AccessControl::register up to its first await: the checks of the
\* identifier and of the password, the error returned if any
register_policy(username, password) ==
    LET name == to_lowercase(username)
    IN IF name = <<>> \/ ~(\A i \in DOMAIN name : is_ascii_alphanumeric(name[i]))
       THEN Some("UsernamePolicy")
       ELSE IF chars_count(password) < MinPasswordLen \/ chars_count(password) > MaxPasswordLen
            THEN Some("PasswordPolicy")
            ELSE None

\* a register that propagates the failure of the backend
register_propagating(self, backend_result) ==
    IF backend_result = None
    THEN [tag |-> "Err", handle |-> None, error |-> "Authentication"]
    ELSE [tag |-> "Ok", handle |-> None, error |-> "none"]

\* AccessControl::register after `self.backend.register_user(..).await`
\* has produced backend_result (None is the error case): unwrap_or(())
\* and Ok(())
register(self, backend_result) == [tag |-> "Ok", handle |-> None, error |-> "none"]

\* an authorize with the subset test the wrong way round
authorize_is_subset(self, required_capabilities) ==
    IF self.user = None
    THEN Panic("user is always available in authenticated state")
    ELSE IF ~(Unwrap(self.user).capabilities \subseteq required_capabilities)
         THEN Err("Authorization")
         ELSE Ok(AccessControl("Authorized", self.user))

\* an authorize that adds the required capabilities to the principal
\* instead of testing for them
authorize_granting(self, required_capabilities) ==
    IF self.user = None
    THEN Panic("user is always available in authenticated state")
    ELSE Ok(AccessControl("Authorized",
            Some([Unwrap(self.user) EXCEPT !.capabilities = @ \cup required_capabilities])))

\* an authorize that takes &self: after a refusal the caller still holds the
\* Authenticated value
authorize_retryable(self, required_capabilities) ==
    IF self.user = None
    THEN Panic("user is always available in authenticated state")
    ELSE IF ~(required_capabilities \subseteq Unwrap(self.user).capabilities)
         THEN [tag |-> "Err", handle |-> Some(self), error |-> "Authorization"]
         ELSE Ok(AccessControl("Authorized", self.user))

\* AccessControl::authorize
authorize(self, required_capabilities) ==
    IF self.user = None
    THEN Panic("user is always available in authenticated state")
    ELSE IF ~(required_capabilities \subseteq Unwrap(self.user).capabilities)
         THEN Err("Authorization")
         ELSE Ok(AccessControl("Authorized", self.user))

\* a get_user that hands out the principal without its capabilities
get_user_without_capabilities(self) ==
    IF self.user = None
    THEN [tag |-> "Panic", user |-> None, error |-> "user is always available in authorized state"]
    ELSE [tag |-> "Ok", user |-> Some([Unwrap(self.user) EXCEPT !.capabilities = {}]),
          error |-> "none"]

\* AccessControl::get_user: the principal, or a panic
get_user(self) ==
    IF self.user = None
    THEN [tag |-> "Panic", user |-> None, error |-> "user is always available in authorized state"]
    ELSE [tag |-> "Ok", user |-> self.user, error |-> "none"]

----------------------------------------------------------------------------
(* src/routes.rs *)

\* do_register: the message of the page, the users table afterwards and the
\* number of INSERT statements issued
do_register(up, utab, form_username, form_password) ==
    LET username == to_lowercase(form_username)
    IN IF ~(\A i \in DOMAIN username : is_ascii_alphanumeric(username[i]))
       THEN [tag |-> "Err", error |-> "username must be alphanumeric",
             users |-> utab, backend_ok |-> FALSE, inserts |-> 0]
       ELSE IF chars_count(form_password) < MinPasswordLen
               \/ chars_count(form_password) > MaxPasswordLen
       THEN [tag |-> "Err",
             error |-> "password must be 12 or more and 256 or less characters in length",
             users |-> utab, backend_ok |-> FALSE, inserts |-> 0]
       ELSE LET b == register_user(up, utab, username, RawText(form_password))
            IN IF b = None
               THEN [tag |-> "Err", error |-> "registration failed",
                     users |-> utab, backend_ok |-> FALSE, inserts |-> 1]
               ELSE [tag |-> "Ok", error |-> "none",
                     users |-> Unwrap(b), backend_ok |-> TRUE, inserts |-> 1]

----------------------------------------------------------------------------
(* Sequences *)

\* form_username is the username as the login form sent it, header the
\* Authorization header of a request, if it has one
NoArgs ==
    [username |-> <<>>, password |-> EmptyPassword, session_id |-> "",
     required_capabilities |-> {}, password_hash |-> FAKE_PHC_HASH,
     user |-> None, form_username |-> <<>>, header |-> None]

\* one completed call: what was called with which arguments, what it
\* returned (user: the principal inside the returned value, if any), what
\* the backend answered and what the call cost
Entry(op, a, tag, error, user, backend_user, backend_ok, calls) ==
    [op |-> op, args |-> a, tag |-> tag, error |-> error, user |-> user,
     backend_user |-> backend_user, backend_ok |-> backend_ok, calls |-> calls,
     set_cookie |-> None]

\* one completed request: as Entry, with the id cookie the response sets
ResponseEntry(op, a, tag, error, backend_ok, set_cookie) ==
    [Entry(op, a, tag, error, None, None, backend_ok,
           [get_user |-> 0, get_user_from_session |-> 0, register_user |-> 0,
            verify_password |-> 0, hash_password |-> 0])
       EXCEPT !.set_cookie = set_cookie]

NoCalls == Calls(0, 0, 0, 0, 0)

Last(q) == q[Len(q)]

\* the users table holds at most MaxUsers rows: an account is only submitted
\* when its name is taken or a row is free
FitsUsers(username) ==
    \/ \E r \in users : r.username = to_lowercase(username)
    \/ Cardinality(users) < MaxUsers
Idle(s) == pc[s] = "idle"
HasHandle(s, state) == handle[s] # None /\ Unwrap(handle[s]).state = state

Init ==
    /\ users = {}
    /\ capabilities = {}
    /\ sessions = {}
    /\ db_up = TRUE
    /\ now = 0
    /\ handle = [s \in Seqs |-> None]
    /\ pc = [s \in Seqs |-> "idle"]
    /\ args = [s \in Seqs |-> NoArgs]
    /\ log = [s \in Seqs |-> <<>>]

\* a phase that is entered before the await: the caller holds a handle of
\* the next phase while the call is pending
pending_handle_materialized(self) == Some(AccessControl("Authenticated", self.user))

\* authenticate_creds, authenticate_session and register take self by value:
\* while the future is pending the caller holds no handle, the value lives
\* inside the future
pending_handle(self) == None

\* AccessControl::new: a sequence starts with a fresh Start handle
New(s) ==
    /\ Idle(s)
    /\ handle' = [handle EXCEPT ![s] = Some(new)]
    /\ log' = [log EXCEPT ![s] = <<>>]
    /\ UNCHANGED <<backend_vars, pc, args>>

\* authenticate_creds is called: self moves into the future, which suspends
\* at get_user
AuthenticateCredsCall(s, username, password) ==
    /\ Idle(s)
    /\ HasHandle(s, "Start")
    /\ handle' = [handle EXCEPT ![s] = pending_handle(Unwrap(@))]
    /\ pc' = [pc EXCEPT ![s] = "authenticate_creds"]
    /\ args' = [args EXCEPT ![s] = [NoArgs EXCEPT !.username = username,
                                                  !.password = password]]
    /\ UNCHANGED <<backend_vars, log>>

\* get_user answers and authenticate_creds runs to its end
AuthenticateCredsReturn(s) ==
    /\ pc[s] = "authenticate_creds"
    /\ LET user == Backend_get_user(args[s].username)
           r == authenticate_creds(new, user, args[s].password)
       IN /\ handle' = [handle EXCEPT ![s] = r.handle]
          /\ log' = [log EXCEPT ![s] = Append(@,
                 Entry("authenticate_creds", args[s], r.tag, r.error,
                       IF r.handle = None THEN None ELSE Unwrap(r.handle).user,
                       user, user # None, authenticate_creds_calls(user)))]
    /\ pc' = [pc EXCEPT ![s] = "idle"]
    /\ args' = [args EXCEPT ![s] = NoArgs]
    /\ UNCHANGED backend_vars

\* authenticate_session is called and suspends at get_user_from_session
AuthenticateSessionCall(s, session_id) ==
    /\ Idle(s)
    /\ HasHandle(s, "Start")
    /\ handle' = [handle EXCEPT ![s] = pending_handle(Unwrap(@))]
    /\ pc' = [pc EXCEPT ![s] = "authenticate_session"]
    /\ args' = [args EXCEPT ![s] = [NoArgs EXCEPT !.session_id = session_id]]
    /\ UNCHANGED <<backend_vars, log>>

\* get_user_from_session answers and authenticate_session runs to its end
AuthenticateSessionReturn(s) ==
    /\ pc[s] = "authenticate_session"
    /\ LET user == Backend_get_user_from_session(args[s].session_id)
           r == authenticate_session(new, user)
       IN /\ handle' = [handle EXCEPT ![s] = r.handle]
          /\ log' = [log EXCEPT ![s] = Append(@,
                 Entry("authenticate_session", args[s], r.tag, r.error,
                       IF r.handle = None THEN None ELSE Unwrap(r.handle).user,
                       user, user # None, authenticate_session_calls(user)))]
    /\ pc' = [pc EXCEPT ![s] = "idle"]
    /\ args' = [args EXCEPT ![s] = NoArgs]
    /\ UNCHANGED backend_vars

\* authorize: synchronous, consumes the Authenticated handle
Authorize(s, required_capabilities) ==
    /\ Idle(s)
    /\ HasHandle(s, "Authenticated")
    /\ LET self == Unwrap(handle[s])
           r == authorize(self, required_capabilities)
       IN /\ handle' = [handle EXCEPT ![s] = r.handle]
          /\ log' = [log EXCEPT ![s] = Append(@,
                 Entry("authorize",
                       [NoArgs EXCEPT !.required_capabilities = required_capabilities],
                       r.tag, r.error,
                       IF r.handle = None THEN None ELSE Unwrap(r.handle).user,
                       None, FALSE, NoCalls))]
    /\ UNCHANGED <<backend_vars, pc, args>>

\* get_user: synchronous, consumes the Authorized handle
GetUser(s) ==
    /\ Idle(s)
    /\ HasHandle(s, "Authorized")
    /\ LET self == Unwrap(handle[s])
           r == get_user(self)
       IN /\ handle' = [handle EXCEPT ![s] = None]
          /\ log' = [log EXCEPT ![s] = Append(@,
                 Entry("get_user", NoArgs, r.tag, r.error, r.user,
                       None, FALSE, NoCalls))]
    /\ UNCHANGED <<backend_vars, pc, args>>

\* register is called: the policy checks run, then the password is hashed
\* with a fresh salt and the future suspends at register_user.  A policy
\* error is returned without suspending.
RegisterCall(s, username, password, salt) ==
    /\ Idle(s)
    /\ FitsUsers(username)
    /\ HasHandle(s, "Start")
    /\ handle' = [handle EXCEPT ![s] = pending_handle(Unwrap(@))]
    /\ LET a == [NoArgs EXCEPT !.username = username, !.password = password]
           e == register_policy(username, password)
       IN IF e # None
          THEN /\ log' = [log EXCEPT ![s] = Append(@,
                      Entry("register", a, "Err", Unwrap(e), None, None, FALSE,
                            NoCalls))]
               /\ UNCHANGED <<pc, args>>
          ELSE /\ pc' = [pc EXCEPT ![s] = "register"]
               /\ args' = [args EXCEPT ![s] =
                      [a EXCEPT !.password_hash = hash_password_simple(password, salt)]]
               /\ UNCHANGED log
    /\ UNCHANGED backend_vars

\* register_user answers and register runs to its end
RegisterReturn(s) ==
    /\ pc[s] = "register"
    /\ LET b == register_user(db_up, users, to_lowercase(args[s].username),
                              args[s].password_hash)
           r == register(new, b)
       IN /\ users' = IF b = None THEN users ELSE Unwrap(b)
          /\ log' = [log EXCEPT ![s] = Append(@,
                 Entry("register", args[s], r.tag, r.error, None, None, b # None,
                       register_calls(b)))]
    /\ pc' = [pc EXCEPT ![s] = "idle"]
    /\ args' = [args EXCEPT ![s] = NoArgs]
    /\ UNCHANGED <<capabilities, sessions, db_up, now, handle>>

\* routes.rs do_register: checks the form, then stores the account
DoRegister(s, form_username, form_password) ==
    /\ Idle(s)
    /\ FitsUsers(form_username)
    /\ LET a == [NoArgs EXCEPT !.username = form_username, !.password = form_password]
           r == do_register(db_up, users, form_username, form_password)
       IN /\ users' = r.users
          /\ log' = [log EXCEPT ![s] = <<Entry("do_register", a, r.tag, r.error, None,
                                               None, r.backend_ok,
                                               Calls(0, 0, r.inserts, 0, 0))>>]
    /\ handle' = [handle EXCEPT ![s] = None]
    /\ UNCHANGED <<capabilities, sessions, db_up, now, pc, args>>

----------------------------------------------------------------------------
(* middleware: SessionState::login *)

\* login from the answer of get_user to the await of store_session:
\* authenticate_creds(..).map_err(..)?.authorize(&HashSet::new())
\* .expect("no capabilities required to login").get_user().
\* entries are the engine calls made, user the principal obtained.
login_authenticate(a, backend_user) ==
    LET r1 == authenticate_creds(new, backend_user, a.password)
        e1 == Entry("authenticate_creds", a, r1.tag, r1.error,
                    IF r1.handle = None THEN None ELSE Unwrap(r1.handle).user,
                    backend_user, backend_user # None,
                    authenticate_creds_calls(backend_user))
    IN IF r1.tag # "Ok"
       THEN [tag |-> "Err", error |-> "invalid username or password",
             user |-> None, entries |-> <<e1>>]
       ELSE
       LET r2 == authorize(Unwrap(r1.handle), {})
           e2 == Entry("authorize", NoArgs, r2.tag, r2.error,
                       IF r2.handle = None THEN None ELSE Unwrap(r2.handle).user,
                       None, FALSE, NoCalls)
       IN IF r2.tag = "Panic"
          THEN [tag |-> "Panic", error |-> r2.error, user |-> None,
                entries |-> <<e1, e2>>]
          ELSE IF r2.tag = "Err"
          THEN [tag |-> "Panic", error |-> "no capabilities required to login",
                user |-> None, entries |-> <<e1, e2>>]
          ELSE
          LET r3 == get_user(Unwrap(r2.handle))
              e3 == Entry("get_user", NoArgs, r3.tag, r3.error, r3.user,
                          None, FALSE, NoCalls)
          IN [tag |-> r3.tag, error |-> r3.error, user |-> r3.user,
              entries |-> <<e1, e2, e3>>]

\* a login that looks the username up as it was typed
login_username_as_typed(username) == username

\* SessionState::login: `username.as_ref().to_lowercase()`
login_username(username) == to_lowercase(username)

\* login is called with the form's credentials: the username is lowercased,
\* a new AccessControl moves into authenticate_creds, which suspends at
\* get_user
LoginCall(s, username, password) ==
    /\ Idle(s)
    /\ handle' = [handle EXCEPT ![s] = None]
    /\ log' = [log EXCEPT ![s] = <<>>]
    /\ pc' = [pc EXCEPT ![s] = "login_authenticate_creds"]
    /\ args' = [args EXCEPT ![s] = [NoArgs EXCEPT !.username = login_username(username),
                                                  !.password = password,
                                                  !.form_username = username]]
    /\ UNCHANGED backend_vars

\* get_user answers; on success a random session id is drawn and login
\* suspends at store_session
LoginAuthenticate(s, session_id) ==
    /\ pc[s] = "login_authenticate_creds"
    /\ LET r == login_authenticate(args[s], Backend_get_user(args[s].username))
       IN IF r.tag = "Ok"
          THEN /\ log' = [log EXCEPT ![s] = @ \o r.entries]
               /\ pc' = [pc EXCEPT ![s] = "login_store_session"]
               /\ args' = [args EXCEPT ![s] =
                      [NoArgs EXCEPT !.user = r.user, !.session_id = session_id,
                                     !.form_username = args[s].form_username]]
          ELSE /\ log' = [log EXCEPT ![s] = (@ \o r.entries) \o
                      <<Entry("login", args[s], r.tag, r.error, None, None, FALSE,
                              NoCalls)>>]
               /\ pc' = [pc EXCEPT ![s] = "idle"]
               /\ args' = [args EXCEPT ![s] = NoArgs]
    /\ UNCHANGED <<backend_vars, handle>>

\* the id cookie of AuthorizationMiddleware::call, SessionStateAction::Login:
\* Cookie::build("id", session_id)
IdCookie(session_id) == [value |-> session_id, expired |-> FALSE]

\* a login that queues the Login action before store_session has answered
login_store_session_queueing_first(user, session_id, backend_result) ==
    [tag |-> IF backend_result = None THEN "Err" ELSE "Ok",
     error |-> IF backend_result = None THEN "backend unavailable" ELSE "none",
     user |-> IF backend_result = None THEN None ELSE Some(user),
     actions |-> <<session_id>>]

\* SessionState::login from the answer of store_session (None is the error
\* case) to its end: `.map_err(|_| ErrorInternalServerError("backend
\* unavailable"))?`, then `item.actions.push(SessionStateAction::Login(
\* session_id))` and `Ok(user)`.  actions are the session ids of the queued
\* Login actions.
login_store_session(user, session_id, backend_result) ==
    IF backend_result = None
    THEN [tag |-> "Err", error |-> "backend unavailable", user |-> None,
          actions |-> <<>>]
    ELSE [tag |-> "Ok", error |-> "none", user |-> Some(user),
          actions |-> <<session_id>>]

\* AuthorizationMiddleware::call, `for action in item.actions`, for the
\* actions a login queues: every Login action adds an id cookie to the
\* response, so the response carries the cookie of the last one, or none
login_response(actions) ==
    IF actions = <<>> THEN None ELSE Some(IdCookie(actions[Len(actions)]))

\* store_session answers, login runs to its end and the middleware adds
\* the cookies of the queued actions to the response
LoginStoreSession(s) ==
    /\ pc[s] = "login_store_session"
    /\ LET user == Unwrap(args[s].user)
           b == store_session(db_up, users, sessions, now, user, args[s].session_id)
           r == login_store_session(user, args[s].session_id, b)
       IN /\ sessions' = IF b = None THEN sessions ELSE Unwrap(b)
          /\ log' = [log EXCEPT ![s] = Append(@,
                 [Entry("login", args[s], r.tag, r.error, r.user, None, b # None,
                        NoCalls)
                    EXCEPT !.set_cookie = login_response(r.actions)])]
    /\ pc' = [pc EXCEPT ![s] = "idle"]
    /\ args' = [args EXCEPT ![s] = NoArgs]
    /\ UNCHANGED <<users, capabilities, db_up, now, handle>>

----------------------------------------------------------------------------
(* logout: the middleware's SessionStateAction::Logout and routes.rs       *)

\* the id cookie after cookie.set_value(""), set_max_age(Duration::zero())
\* and set_expires(a year ago)
ExpiredCookie == [value |-> "", expired |-> TRUE]

\* a logout that answers with an error when the session could not be removed
logout_response_propagating(cookie, backend_result) ==
    IF cookie = None
    THEN [tag |-> "Ok", error |-> "none", set_cookie |-> None]
    ELSE IF backend_result = None
         THEN [tag |-> "Err", error |-> "backend unavailable", set_cookie |-> None]
         ELSE [tag |-> "Ok", error |-> "none", set_cookie |-> Some(ExpiredCookie)]

\* AuthorizationMiddleware::call, SessionStateAction::Logout, after
\* `backend.remove_session(cookie.value()).await` has produced backend_result
\* (None is the error case, dropped by `let _ =`): the handler's response,
\* with the id cookie expired when the request carried one
logout_response(cookie, backend_result) ==
    [tag |-> "Ok", error |-> "none",
     set_cookie |-> IF cookie = None THEN None ELSE Some(ExpiredCookie)]

\* a new request, whose handler called SessionState::logout, has been
\* answered by the handler: the middleware takes the Logout action and, if
\* the request carries an id cookie, suspends at remove_session
LogoutCall(s, cookie) ==
    /\ Idle(s)
    /\ handle' = [handle EXCEPT ![s] = None]
    /\ IF cookie = None
       THEN LET r == logout_response(cookie, None)
            IN /\ log' = [log EXCEPT ![s] =
                      <<ResponseEntry("logout", NoArgs, r.tag, r.error, FALSE,
                                      r.set_cookie)>>]
               /\ UNCHANGED <<pc, args>>
       ELSE /\ pc' = [pc EXCEPT ![s] = "logout"]
            /\ args' = [args EXCEPT ![s] = [NoArgs EXCEPT !.session_id = Unwrap(cookie)]]
            /\ log' = [log EXCEPT ![s] = <<>>]
    /\ UNCHANGED backend_vars

\* remove_session answers and the response goes out
LogoutReturn(s) ==
    /\ pc[s] = "logout"
    /\ LET b == remove_session(db_up, sessions, args[s].session_id)
           r == logout_response(Some(args[s].session_id), b)
       IN /\ sessions' = IF b = None THEN sessions ELSE Unwrap(b)
          /\ log' = [log EXCEPT ![s] = Append(@,
                 ResponseEntry("logout", args[s], r.tag, r.error, b # None,
                               r.set_cookie))]
    /\ pc' = [pc EXCEPT ![s] = "idle"]
    /\ args' = [args EXCEPT ![s] = NoArgs]
    /\ UNCHANGED <<users, capabilities, db_up, now, handle>>

\* routes.rs do_logout behind the middleware of /logout: no session
\* middleware is installed, so the Session extractor holds an empty session
\* and session.get("id") is Ok(None): remove_session is not called.  The
\* handler does not call SessionState::logout, so the middleware has no
\* action to take and the id cookie of the request is left alone.
DoLogout(s, cookie) ==
    /\ Idle(s)
    /\ handle' = [handle EXCEPT ![s] = None]
    /\ log' = [log EXCEPT ![s] =
           <<ResponseEntry("do_logout",
                           IF cookie = None THEN NoArgs
                           ELSE [NoArgs EXCEPT !.session_id = Unwrap(cookie)],
                           "Ok", "none", FALSE, None)>>]
    /\ UNCHANGED <<backend_vars, pc, args>>

----------------------------------------------------------------------------
(* middleware: the UserDetails extractor *)

\* an extractor that does not compare the capabilities of the principal
\* with those the route requires
user_details_without_authorize(backend_user, required_caps) ==
    IF backend_user = None
    THEN [tag |-> "Err", error |-> "Unauthorized", user |-> None]
    ELSE [tag |-> "Ok", error |-> "none", user |-> backend_user]

\* UserDetails::from_request from the answer of get_user_from_session to
\* its end: authenticate_session(..).map_err(|_| ErrorUnauthorized(..))?
\* .authorize(&item.required_caps).map_err(|_| ErrorForbidden(..))?
\* .get_user()
user_details(backend_user, required_caps) ==
    LET r1 == authenticate_session(new, backend_user)
    IN IF r1.tag # "Ok"
       THEN [tag |-> "Err", error |-> "Unauthorized", user |-> None]
       ELSE
       LET r2 == authorize(Unwrap(r1.handle), required_caps)
       IN IF r2.tag = "Panic"
          THEN [tag |-> "Panic", error |-> r2.error, user |-> None]
          ELSE IF r2.tag = "Err"
          THEN [tag |-> "Err", error |-> "Forbidden", user |-> None]
          ELSE get_user(Unwrap(r2.handle))

\* a request reaches a route that extracts UserDetails, behind a middleware
\* that requires required_caps: without an id cookie the extractor answers
\* with the redirect to /login, with one it suspends at
\* get_user_from_session
UserDetailsCall(s, cookie, required_caps) ==
    /\ Idle(s)
    /\ handle' = [handle EXCEPT ![s] = None]
    /\ IF cookie = None
       THEN /\ log' = [log EXCEPT ![s] =
                   <<Entry("user_details",
                           [NoArgs EXCEPT !.required_capabilities = required_caps],
                           "Redirect", "/login", None, None, FALSE, NoCalls)>>]
            /\ UNCHANGED <<pc, args>>
       ELSE /\ pc' = [pc EXCEPT ![s] = "user_details"]
            /\ args' = [args EXCEPT ![s] =
                   [NoArgs EXCEPT !.session_id = Unwrap(cookie),
                                  !.required_capabilities = required_caps]]
            /\ log' = [log EXCEPT ![s] = <<>>]
    /\ UNCHANGED backend_vars

\* get_user_from_session answers and the extractor runs to its end
UserDetailsReturn(s) ==
    /\ pc[s] = "user_details"
    /\ LET user == Backend_get_user_from_session(args[s].session_id)
           r == user_details(user, args[s].required_capabilities)
       IN log' = [log EXCEPT ![s] = Append(@,
              Entry("user_details", args[s], r.tag, r.error, r.user, user,
                    user # None, authenticate_session_calls(user)))]
    /\ pc' = [pc EXCEPT ![s] = "idle"]
    /\ args' = [args EXCEPT ![s] = NoArgs]
    /\ UNCHANGED <<backend_vars, handle>>

----------------------------------------------------------------------------
(* authorization: the header-based middleware.  The crate is written       *)
(* against the engine's interface before authenticate became               *)
(* authenticate_creds and before authorize took a set: authenticate is     *)
(* taken to be authenticate_creds, and authorize(&permission) to be        *)
(* authorize with the set that holds the configured permission.            *)

\* a run of header text without '#', with what it reads as when it is taken
\* for an identifier and for a password
Chunk(username, password) ==
    [sep |-> FALSE, username |-> username, password |-> password]

\* the character '#'
Separator == [sep |-> TRUE, username |-> <<>>, password |-> EmptyPassword]

\* a header value: its bytes read as text by HeaderValue::to_str, None when
\* they are not visible ASCII
HeaderValue(text) == [to_str |-> text]

\* the text "default" of `.unwrap_or("default")`
DefaultText == <<Chunk(<<"d", "e", "f", "a", "u", "l", "t">>, Pw(7, 0))>>

\* str::splitn(2, '#'): the text as a whole when it holds no '#', else the
\* text before the first '#' and the text after it
splitn_2(text) ==
    LET at == {i \in DOMAIN text : text[i].sep}
    IN IF at = {} THEN <<text>>
       ELSE LET first == CHOOSE i \in at : \A j \in at : i <= j
            IN <<SubSeq(text, 1, first - 1), SubSeq(text, first + 1, Len(text))>>

\* `.map(|s| s.to_string())` on a part of at most one run, read as the
\* identifier and as the password
to_string_email(part) == IF part = <<>> THEN <<>> ELSE part[1].username
to_string_password(part) == IF part = <<>> THEN EmptyPassword ELSE part[1].password

\* AuthorizationMiddleware::call up to `(email, password)`: a missing
\* header returns ErrorBadRequest; `iter.next().unwrap()` panics when the
\* iterator is exhausted
header_credentials(header) ==
    IF header = None
    THEN [tag |-> "Err", error |-> "BadRequest", email |-> <<>>,
          password |-> EmptyPassword]
    ELSE LET text == unwrap_or(Unwrap(header).to_str, DefaultText)
             iter == splitn_2(text)
         IN IF Len(iter) < 1
            THEN [tag |-> "Panic", error |-> "called Option::unwrap() on a None value",
                  email |-> <<>>, password |-> EmptyPassword]
            ELSE IF Len(iter) < 2
            THEN [tag |-> "Panic", error |-> "called Option::unwrap() on a None value",
                  email |-> to_string_email(iter[1]), password |-> EmptyPassword]
            ELSE [tag |-> "Ok", error |-> "none",
                  email |-> to_string_email(iter[1]),
                  password |-> to_string_password(iter[2])]

\* the closure check_access from the answer of get_user on:
\* authenticate(..).map_err(|_| ErrorBadRequest(..))?.authorize(..)
\* .map_err(|_| ErrorForbidden(..))?.get_user(), then
\* req.extensions_mut().insert(user).  entries are the calls made.
check_access(a, backend_user) ==
    LET r1 == authenticate_creds(new, backend_user, a.password)
        e1 == Entry("authenticate_creds", a, r1.tag, r1.error,
                    IF r1.handle = None THEN None ELSE Unwrap(r1.handle).user,
                    backend_user, backend_user # None,
                    authenticate_creds_calls(backend_user))
    IN IF r1.tag # "Ok"
       THEN [tag |-> "Err", error |-> "BadRequest", entries |-> <<e1>>]
       ELSE
       LET r2 == authorize(Unwrap(r1.handle), a.required_capabilities)
           e2 == Entry("authorize", a, r2.tag, r2.error,
                       IF r2.handle = None THEN None ELSE Unwrap(r2.handle).user,
                       None, FALSE, NoCalls)
       IN IF r2.tag = "Panic"
          THEN [tag |-> "Panic", error |-> r2.error, entries |-> <<e1, e2>>]
          ELSE IF r2.tag = "Err"
          THEN [tag |-> "Err", error |-> "Forbidden", entries |-> <<e1, e2>>]
          ELSE
          LET r3 == get_user(Unwrap(r2.handle))
              e3 == Entry("get_user", a, r3.tag, r3.error, r3.user, None, FALSE,
                          NoCalls)
              e4 == Entry("extensions_insert", a, "Ok", "none", r3.user, None, FALSE,
                          NoCalls)
          IN IF r3.tag # "Ok"
             THEN [tag |-> r3.tag, error |-> r3.error, entries |-> <<e1, e2, e3>>]
             ELSE [tag |-> "Ok", error |-> "none", entries |-> <<e1, e2, e3, e4>>]

\* a request reaches the middleware configured with a permission: the
\* credentials are taken from the header and check_access suspends at
\* get_user
HeaderCall(s, header, permission) ==
    /\ Idle(s)
    /\ handle' = [handle EXCEPT ![s] = None]
    /\ LET c == header_credentials(header)
           a == [NoArgs EXCEPT !.username = c.email, !.password = c.password,
                               !.required_capabilities = {permission},
                               !.header = header]
       IN IF c.tag = "Ok"
          THEN /\ pc' = [pc EXCEPT ![s] = "check_access"]
               /\ args' = [args EXCEPT ![s] = a]
               /\ log' = [log EXCEPT ![s] = <<>>]
          ELSE /\ log' = [log EXCEPT ![s] =
                      <<Entry("header_call", a, c.tag, c.error, None, None, FALSE,
                              NoCalls)>>]
               /\ UNCHANGED <<pc, args>>
    /\ UNCHANGED backend_vars

\* get_user answers, check_access runs to its end and, when it returned
\* Ok, the wrapped service is called and its result is the response
HeaderReturn(s, service_ok) ==
    /\ pc[s] = "check_access"
    /\ LET r == check_access(args[s], Backend_get_user(args[s].username))
       IN log' = [log EXCEPT ![s] = (@ \o r.entries) \o
              (IF r.tag = "Ok"
               THEN <<Entry("service_call", args[s], "Ok", "none", None, None, FALSE,
                            NoCalls),
                      Entry("header_call", args[s],
                            IF service_ok THEN "Ok" ELSE "Err",
                            IF service_ok THEN "none" ELSE "Service",
                            None, None, FALSE, NoCalls)>>
               ELSE <<Entry("header_call", args[s], r.tag, r.error, None, None,
                            FALSE, NoCalls)>>)]
    /\ pc' = [pc EXCEPT ![s] = "idle"]
    /\ args' = [args EXCEPT ![s] = NoArgs]
    /\ UNCHANGED <<backend_vars, handle>>

----------------------------------------------------------------------------
(* The database changes under the engine *)

\* the clock of the database advances (sessions expire)
Tick ==
    /\ now < MaxTime
    /\ now' = now + 1
    /\ UNCHANGED <<users, capabilities, sessions, db_up, handle, pc, args, log>>

\* the connection to the database is lost or comes back
SetDbUp(b) ==
    /\ db_up # b
    /\ db_up' = b
    /\ UNCHANGED <<users, capabilities, sessions, now, handle, pc, args, log>>

\* an administrator inserts a row into the capabilities table
GrantCapability(user_id, label) ==
    /\ \E r \in users : r.user_id = user_id
    /\ [label |-> label, user_id |-> user_id] \notin capabilities
    /\ capabilities' = capabilities \cup {[label |-> label, user_id |-> user_id]}
    /\ UNCHANGED <<users, sessions, db_up, now, handle, pc, args, log>>

\* an administrator deletes a row of the capabilities table
RevokeCapability(user_id, label) ==
    /\ [label |-> label, user_id |-> user_id] \in capabilities
    /\ capabilities' = capabilities \ {[label |-> label, user_id |-> user_id]}
    /\ UNCHANGED <<users, sessions, db_up, now, handle, pc, args, log>>

\* Backend::remove_session on a stored session
RemoveSession(session_id) ==
    /\ \E r \in sessions : r.session_id = session_id
    /\ LET b == remove_session(db_up, sessions, session_id)
       IN sessions' = IF b = None THEN sessions ELSE Unwrap(b)
    /\ UNCHANGED <<users, capabilities, db_up, now, handle, pc, args, log>>

\* another client of the backend stores a session for an account
StoreSession(user_id, session_id) ==
    /\ \E u \in users :
          /\ u.user_id = user_id
          /\ LET b == store_session(db_up, users, sessions, now,
                                    User(u, capabilities), session_id)
             IN /\ b # None
                /\ sessions' = Unwrap(b)
    /\ UNCHANGED <<users, capabilities, db_up, now, handle, pc, args, log>>

\* the caller drops the future of a pending call (a timeout, a closed
\* connection): the value that moved into the future is dropped with it.
\* The statement sent to the database may or may not have been executed.
Abandon(s, executed) ==
    /\ pc[s] \in {"authenticate_creds", "authenticate_session", "register"}
    /\ LET b == IF pc[s] = "register" /\ executed
                THEN register_user(db_up, users, to_lowercase(args[s].username),
                                   args[s].password_hash)
                ELSE None
       IN users' = IF b = None THEN users ELSE Unwrap(b)
    /\ log' = [log EXCEPT ![s] = Append(@,
           Entry(pc[s], args[s], "Cancelled", "none", None, None, FALSE, NoCalls))]
    /\ pc' = [pc EXCEPT ![s] = "idle"]
    /\ args' = [args EXCEPT ![s] = NoArgs]
    /\ UNCHANGED <<capabilities, sessions, db_up, now, handle>>

----------------------------------------------------------------------------
(* The queries of the store called directly, as the tests of user.rs do    *)

\* User::register_user
RegisterUser(s, username, password_hash) ==
    /\ Idle(s)
    /\ \/ \E r \in users : r.username = username
       \/ Cardinality(users) < StoreMaxUsers
    /\ LET a == [NoArgs EXCEPT !.username = username, !.password_hash = password_hash]
           b == register_user(db_up, users, username, password_hash)
       IN /\ users' = IF b = None THEN users ELSE Unwrap(b)
          /\ log' = [log EXCEPT ![s] =
                 <<Entry("register_user", a, IF b = None THEN "Err" ELSE "Ok",
                         IF b = None THEN "UserRegistrationFailed" ELSE "none",
                         None, None, b # None, Calls(0, 0, 1, 0, 0))>>]
    /\ UNCHANGED <<capabilities, sessions, db_up, now, handle, pc, args>>

\* User::look_up_user
LookUpUser(s, username) ==
    /\ Idle(s)
    /\ LET a == [NoArgs EXCEPT !.username = username]
           b == look_up_user(db_up, users, capabilities, username)
       IN log' = [log EXCEPT ![s] =
              <<Entry("look_up_user", a, IF b = None THEN "Err" ELSE "Ok",
                      IF b = None THEN "UserNotFound" ELSE "none",
                      b, b, b # None, Calls(1, 0, 0, 0, 0))>>]
    /\ UNCHANGED <<backend_vars, handle, pc, args>>

\* User::look_up_user_from_session
LookUpUserFromSession(s, session_id) ==
    /\ Idle(s)
    /\ LET a == [NoArgs EXCEPT !.session_id = session_id]
           b == look_up_user_from_session(db_up, users, capabilities, sessions, now,
                                          session_id)
       IN log' = [log EXCEPT ![s] =
              <<Entry("look_up_user_from_session", a,
                      IF b = None THEN "Err" ELSE "Ok",
                      IF b = None THEN "UserNotFound" ELSE "none",
                      b, b, b # None, Calls(0, 1, 0, 0, 0))>>]
    /\ UNCHANGED <<backend_vars, handle, pc, args>>

\* User::store_session for a stored account
UserStoreSession(s, user_id, session_id) ==
    /\ Idle(s)
    /\ \E u \in users :
          /\ u.user_id = user_id
          /\ LET user == User(u, capabilities)
                 a == [NoArgs EXCEPT !.session_id = session_id, !.user = Some(user)]
                 b == store_session(db_up, users, sessions, now, user, session_id)
             IN /\ sessions' = IF b = None THEN sessions ELSE Unwrap(b)
                /\ log' = [log EXCEPT ![s] =
                       <<Entry("store_session", a, IF b = None THEN "Err" ELSE "Ok",
                               IF b = None THEN "Database" ELSE "none",
                               None, None, b # None, NoCalls)>>]
    /\ UNCHANGED <<users, capabilities, db_up, now, handle, pc, args>>

----------------------------------------------------------------------------
(* Specification: one sequence at a time drives the engine while the       *)
(* database changes under it                                               *)

\* the sequence that acts in this specification: the first one
Main == CHOOSE s \in Seqs : \A t \in Seqs : s <= t

\* the inputs of this specification: an identifier that can be registered
\* and one that cannot, the empty password and two passwords the policy
\* accepts
MainUsernames == { <<"a">>, <<"@">> }
MainPasswords == { EmptyPassword, Pw(12, 0), Pw(12, 1) }

Next ==
    \/ New(Main)
    \/ \E u \in MainUsernames, p \in MainPasswords : AuthenticateCredsCall(Main, u, p)
    \/ AuthenticateCredsReturn(Main)
    \/ \E t \in SessionIds : AuthenticateSessionCall(Main, t)
    \/ AuthenticateSessionReturn(Main)
    \/ \E r \in SUBSET Capabilities : Authorize(Main, r)
    \/ GetUser(Main)
    \/ \E u \in MainUsernames, p \in MainPasswords, salt \in Salts :
          RegisterCall(Main, u, p, salt)
    \/ RegisterReturn(Main)
    \/ \E u \in MainUsernames, p \in MainPasswords : DoRegister(Main, u, p)
    \/ \E u \in MainUsernames, p \in MainPasswords : LoginCall(Main, u, p)
    \/ \E t \in SessionIds : LoginAuthenticate(Main, t)
    \/ LoginStoreSession(Main)
    \/ \E b \in BOOLEAN : SetDbUp(b)
    \/ \E id \in 1..MaxUsers, c \in Capabilities : GrantCapability(id, c)
    \/ \E id \in 1..MaxUsers, c \in Capabilities : RevokeCapability(id, c)
    \/ \E t \in SessionIds : RemoveSession(t)

Spec == Init /\ [][Next]_vars

----------------------------------------------------------------------------
(* Specification of registration: one sequence registers accounts through  *)
(* the engine and through the /register route                              *)

\* the passwords of this specification: the lengths on both sides of both
\* limits of the policy
RegisterPasswords == { Pw(11, 0), Pw(12, 0), Pw(256, 0), Pw(257, 0) }

NextRegister ==
    \/ New(Main)
    \/ \E u \in Usernames, p \in RegisterPasswords, salt \in Salts :
          RegisterCall(Main, u, p, salt)
    \/ RegisterReturn(Main)
    \/ \E u \in Usernames, p \in RegisterPasswords : DoRegister(Main, u, p)
    \/ \E b \in BOOLEAN : SetDbUp(b)

SpecRegister == Init /\ [][NextRegister]_vars

----------------------------------------------------------------------------
(* Specification of session expiry: an account is registered, logs in and  *)
(* presents its session ids while the clock of the database advances       *)

ExpiryUsername == <<"a">>
ExpiryPassword == Pw(12, 0)

NextExpiry ==
    \/ New(Main)
    \/ \E salt \in Salts : RegisterCall(Main, ExpiryUsername, ExpiryPassword, salt)
    \/ RegisterReturn(Main)
    \/ LoginCall(Main, ExpiryUsername, ExpiryPassword)
    \/ \E t \in SessionIds : LoginAuthenticate(Main, t)
    \/ LoginStoreSession(Main)
    \/ \E t \in SessionIds : AuthenticateSessionCall(Main, t)
    \/ AuthenticateSessionReturn(Main)
    \/ Tick

SpecExpiry == Init /\ [][NextExpiry]_vars

----------------------------------------------------------------------------
(* Specification of concurrent sequences: every sequence drives its own    *)
(* handle against the one backend, and pending calls may be abandoned      *)

SequencesUsernames == { <<"a">>, <<"@">> }
SequencesPasswords == { Pw(12, 0), Pw(12, 1) }
SequencesCapabilities == { {}, {"UserRead"} }

NextSequences ==
    \/ \E s \in Seqs : New(s)
    \/ \E s \in Seqs, u \in SequencesUsernames, p \in SequencesPasswords :
          AuthenticateCredsCall(s, u, p)
    \/ \E s \in Seqs : AuthenticateCredsReturn(s)
    \/ \E s \in Seqs, t \in SessionIds : AuthenticateSessionCall(s, t)
    \/ \E s \in Seqs : AuthenticateSessionReturn(s)
    \/ \E s \in Seqs, salt \in Salts :
          RegisterCall(s, <<"a">>, Pw(12, 0), salt)
    \/ \E s \in Seqs : RegisterReturn(s)
    \/ \E s \in Seqs, r \in SequencesCapabilities : Authorize(s, r)
    \/ \E s \in Seqs : GetUser(s)
    \/ \E s \in Seqs, executed \in BOOLEAN : Abandon(s, executed)
    \/ \E id \in 1..MaxUsers, t \in SessionIds : StoreSession(id, t)

SpecSequences == Init /\ [][NextSequences]_vars

----------------------------------------------------------------------------
(* Specification of logout: an account is registered and logs in, requests *)
(* log out with and without the id cookie, and session ids are presented   *)
(* again afterwards, while the database may be unreachable                 *)

Cookies == {None} \cup {Some(t) : t \in SessionIds}

NextLogout ==
    \/ New(Main)
    \/ \E salt \in Salts : RegisterCall(Main, ExpiryUsername, ExpiryPassword, salt)
    \/ RegisterReturn(Main)
    \/ LoginCall(Main, ExpiryUsername, ExpiryPassword)
    \/ \E t \in SessionIds : LoginAuthenticate(Main, t)
    \/ LoginStoreSession(Main)
    \/ \E c \in Cookies : LogoutCall(Main, c)
    \/ LogoutReturn(Main)
    \/ \E c \in Cookies : DoLogout(Main, c)
    \/ \E t \in SessionIds : AuthenticateSessionCall(Main, t)
    \/ AuthenticateSessionReturn(Main)
    \/ \E b \in BOOLEAN : SetDbUp(b)

SpecLogout == Init /\ [][NextLogout]_vars

----------------------------------------------------------------------------
(* Specification of the store: accounts are inserted and looked up,        *)
(* capabilities granted and revoked, a session stored, looked up and        *)
(* removed, while the clock advances                                       *)

StoreUsernames == { <<"a">>, <<"k">> }
StorePasswordHashes == { RawText(Pw(12, 0)), RawText(Pw(12, 1)) }
StoreSessionId == CHOOSE t \in SessionIds : TRUE
StoreCapability == "UserRead"

NextStore ==
    \/ \E u \in StoreUsernames, h \in StorePasswordHashes : RegisterUser(Main, u, h)
    \/ \E u \in StoreUsernames : LookUpUser(Main, u)
    \/ LookUpUserFromSession(Main, StoreSessionId)
    \/ \E id \in 1..StoreMaxUsers : StoreSession(id, StoreSessionId)
    \/ RemoveSession(StoreSessionId)
    \/ \E id \in 1..StoreMaxUsers : GrantCapability(id, StoreCapability)
    \/ \E id \in 1..StoreMaxUsers : RevokeCapability(id, StoreCapability)
    \/ Tick

SpecStore == Init /\ [][NextStore]_vars

----------------------------------------------------------------------------
(* Specification of the round trip: an account is registered through the   *)
(* engine and logs in under its identifier in either letter case, with the *)
(* right password and with wrong ones                                      *)

RoundTripUsernames == { <<"a">>, <<"A">> }
RoundTripPassword == Pw(12, 0)
RoundTripLoginPasswords == { Pw(12, 0), Pw(12, 1), EmptyPassword }

NextRoundTrip ==
    \/ New(Main)
    \/ \E u \in RoundTripUsernames, salt \in Salts :
          RegisterCall(Main, u, RoundTripPassword, salt)
    \/ RegisterReturn(Main)
    \/ \E v \in RoundTripUsernames, p \in RoundTripLoginPasswords : LoginCall(Main, v, p)
    \/ \E t \in SessionIds : LoginAuthenticate(Main, t)
    \/ LoginStoreSession(Main)
    \/ \E b \in BOOLEAN : SetDbUp(b)

SpecRoundTrip == Init /\ [][NextRoundTrip]_vars

----------------------------------------------------------------------------
(* Specification of the extractor: an account is stored, gains and loses   *)
(* capabilities, a session is stored for it and removed, and requests with *)
(* and without an id cookie reach routes of each configuration while the   *)
(* clock advances and the database may be unreachable                      *)

\* the capabilities the middleware requires in configuration.rs: none in
\* website, UserRead in user_config, AdminRead in admin_config
RouteCapabilities == { {}, {"UserRead"}, {"AdminRead"} }

NextExtractor ==
    \/ DoRegister(Main, ExpiryUsername, ExpiryPassword)
    \/ \E id \in 1..MaxUsers : StoreSession(id, StoreSessionId)
    \/ RemoveSession(StoreSessionId)
    \/ \E id \in 1..MaxUsers, c \in Capabilities : GrantCapability(id, c)
    \/ \E id \in 1..MaxUsers, c \in Capabilities : RevokeCapability(id, c)
    \/ \E c \in Cookies, r \in RouteCapabilities : UserDetailsCall(Main, c, r)
    \/ UserDetailsReturn(Main)
    \/ Tick
    \/ \E b \in BOOLEAN : SetDbUp(b)

SpecExtractor == Init /\ [][NextExtractor]_vars

----------------------------------------------------------------------------
(* Specification of session bindings: two accounts are stored, sessions    *)
(* are stored for either of them under the same ids, looked up and         *)
(* removed, while the clock advances                                       *)

BindingPasswordHash == RawText(Pw(12, 0))

NextBinding ==
    \/ \E u \in StoreUsernames : RegisterUser(Main, u, BindingPasswordHash)
    \/ \E id \in 1..StoreMaxUsers, t \in SessionIds : UserStoreSession(Main, id, t)
    \/ \E t \in SessionIds : RemoveSession(t)
    \/ \E t \in SessionIds : LookUpUserFromSession(Main, t)
    \/ Tick

SpecBinding == Init /\ [][NextBinding]_vars

----------------------------------------------------------------------------
(* Specification of the frame of logout: two accounts are stored, gain and *)
(* lose a capability and hold sessions, and requests log out through the   *)
(* middleware and through the /logout route with and without the id        *)
(* cookie, while the database may be unreachable                           *)

NextLogoutFrame ==
    \/ \E u \in StoreUsernames : RegisterUser(Main, u, BindingPasswordHash)
    \/ \E id \in 1..StoreMaxUsers, t \in SessionIds : StoreSession(id, t)
    \/ \E id \in 1..StoreMaxUsers : GrantCapability(id, StoreCapability)
    \/ \E id \in 1..StoreMaxUsers : RevokeCapability(id, StoreCapability)
    \/ \E c \in Cookies : LogoutCall(Main, c)
    \/ LogoutReturn(Main)
    \/ \E c \in Cookies : DoLogout(Main, c)
    \/ \E b \in BOOLEAN : SetDbUp(b)

SpecLogoutFrame == Init /\ [][NextLogoutFrame]_vars

----------------------------------------------------------------------------
(* Specification of the header-based middleware: an account is registered  *)
(* and gains and loses capabilities, and requests with and without an      *)
(* Authorization header reach the middleware, which is configured with one *)
(* permission, while the database may be unreachable                       *)

\* the Authorization headers of a request: none, bytes that are not text,
\* the empty text, an identifier without '#', and an identifier, '#' and a
\* password: of the account with the right password, with a wrong one and
\* with the empty one, and of no account with the empty password
Headers ==
    { None,
      Some(HeaderValue(None)),
      Some(HeaderValue(Some(<<>>))),
      Some(HeaderValue(Some(<<Chunk(<<"a">>, Pw(1, 0))>>))),
      Some(HeaderValue(Some(<<Chunk(<<"a">>, Pw(1, 0)), Separator,
                              Chunk(<<"a">>, Pw(12, 0))>>))),
      Some(HeaderValue(Some(<<Chunk(<<"a">>, Pw(1, 0)), Separator,
                              Chunk(<<"a">>, Pw(12, 1))>>))),
      Some(HeaderValue(Some(<<Chunk(<<"a">>, Pw(1, 0)), Separator>>))),
      Some(HeaderValue(Some(<<Chunk(<<"@">>, Pw(1, 0)), Separator>>))) }

NextHeader ==
    \/ New(Main)
    \/ \E salt \in Salts : RegisterCall(Main, ExpiryUsername, ExpiryPassword, salt)
    \/ RegisterReturn(Main)
    \/ \E id \in 1..MaxUsers, c \in Capabilities : GrantCapability(id, c)
    \/ \E id \in 1..MaxUsers, c \in Capabilities : RevokeCapability(id, c)
    \/ \E h \in Headers, c \in Capabilities : HeaderCall(Main, h, c)
    \/ \E b \in BOOLEAN : HeaderReturn(Main, b)
    \/ \E b \in BOOLEAN : SetDbUp(b)

SpecHeader == Init /\ [][NextHeader]_vars

----------------------------------------------------------------------------
(* Specification of concurrent registration: every sequence registers the  *)
(* same identifier, in either letter case and with either of two           *)
(* passwords, while the calls of the others are pending and the database   *)
(* may be unreachable                                                      *)

ConcurrentUsernames == { <<"a">>, <<"A">> }
ConcurrentPasswords == { Pw(12, 0), Pw(12, 1) }

NextConcurrent ==
    \/ \E s \in Seqs : New(s)
    \/ \E s \in Seqs, u \in ConcurrentUsernames, p \in ConcurrentPasswords,
          salt \in Salts : RegisterCall(s, u, p, salt)
    \/ \E s \in Seqs : RegisterReturn(s)
    \/ \E b \in BOOLEAN : SetDbUp(b)

SpecConcurrent == Init /\ [][NextConcurrent]_vars

----------------------------------------------------------------------------
(* Properties *)

AuthenticateOps == {"authenticate_creds", "authenticate_session"}
IsAuthenticationError(e) == e.tag = "Err" /\ e.error = "Authentication"
IsAuthorizationError(e) == e.tag = "Err" /\ e.error = "Authorization"

\* the calls of op that sequence s has completed
Completed(s, op) == {i \in DOMAIN log[s] : log[s][i].op = op}

\* C1: in every sequence authorize runs only directly after a successful
\* authenticate_creds or authenticate_session and get_user only directly
\* after a successful authorize that followed a successful authentication;
\* a handle in phase Authenticated or Authorized is the value returned by
\* the successful call before it.
C1_Sequencing ==
    \A s \in Seqs :
        /\ \A i \in Completed(s, "authorize") :
              /\ i > 1
              /\ log[s][i-1].op \in AuthenticateOps
              /\ log[s][i-1].tag = "Ok"
        /\ \A i \in Completed(s, "get_user") :
              /\ i > 2
              /\ log[s][i-1].op = "authorize"
              /\ log[s][i-1].tag = "Ok"
              /\ log[s][i-2].op \in AuthenticateOps
              /\ log[s][i-2].tag = "Ok"
        /\ HasHandle(s, "Authenticated") =>
              /\ log[s] # <<>>
              /\ Last(log[s]).op \in AuthenticateOps
              /\ Last(log[s]).tag = "Ok"
        /\ HasHandle(s, "Authorized") =>
              /\ log[s] # <<>>
              /\ Last(log[s]).op = "authorize"
              /\ Last(log[s]).tag = "Ok"

\* a principal was obtained from get_user on the session-token path
C1_Witness ==
    \E s \in Seqs :
        /\ Len(log[s]) = 3
        /\ log[s][1].op = "authenticate_session"
        /\ log[s][2].op = "authorize"
        /\ log[s][3].op = "get_user"
        /\ log[s][3].user # None

\* C2: a handle in phase Start has no principal, a handle in phase
\* Authenticated or Authorized has one, for every backend content,
\* identifier and password given to authenticate_creds.
C2_PhaseInvariant ==
    \A s \in Seqs :
        handle[s] # None =>
            LET h == Unwrap(handle[s])
            IN /\ h.state = "Start" => h.user = None
               /\ h.state \in {"Authenticated", "Authorized"} => h.user # None

\* C3: when the backend has no principal for the identifier,
\* authenticate_creds returns Error::Authentication for every password.
C3_DecoyNeverValid ==
    \A s \in Seqs :
        \A i \in Completed(s, "authenticate_creds") :
            log[s][i].backend_user = None => IsAuthenticationError(log[s][i])

\* C4: when the principal exists and its stored hash does not parse,
\* authenticate_creds returns Error::Authentication for every password.
C4_UnparseableHashNeverValid ==
    \A s \in Seqs :
        \A i \in Completed(s, "authenticate_creds") :
            LET e == log[s][i]
            IN (/\ e.backend_user # None
                /\ PasswordHash_new(Unwrap(e.backend_user).password_hash) = None)
               => IsAuthenticationError(e)

\* C5: authorize(R) on an Authenticated handle whose principal has the
\* capability set C returns an Authorized handle if R is a subset of C and
\* Error::Authorization otherwise; the empty R succeeds for every principal.
C5_AuthorizeIffSubset ==
    \A s \in Seqs :
        \A i \in Completed(s, "authorize") :
            (i > 1 /\ log[s][i-1].user # None) =>
                LET e == log[s][i]
                    R == e.args.required_capabilities
                    C == Unwrap(log[s][i-1].user).capabilities
                IN /\ R \subseteq C => (e.tag = "Ok" /\ e.user = log[s][i-1].user)
                   /\ ~(R \subseteq C) => IsAuthorizationError(e)
                   /\ R = {} => e.tag = "Ok"

\* authorize failed for a principal that has a capability, but not the
\* required one
C5_Witness ==
    \E s \in Seqs :
        \E i \in Completed(s, "authorize") :
            /\ i > 1
            /\ log[s][i-1].user # None
            /\ Unwrap(log[s][i-1].user).capabilities # {}
            /\ log[s][i].args.required_capabilities # {}
            /\ IsAuthorizationError(log[s][i])

\* the authentication call whose result the handle of s descends from
AuthenticationOf(s) ==
    IF HasHandle(s, "Authorized") THEN log[s][Len(log[s]) - 1] ELSE Last(log[s])

\* C6: a handle in phase Authenticated or Authorized holds the principal as
\* the backend returned it at the authentication step, whatever the tables
\* hold now, and for a handle in phase Authorized the capability set of
\* that principal is a superset of the required set of the authorize call
\* that produced the handle.
C6_AuthorizedHoldsAuthenticatedPrincipal ==
    \A s \in Seqs :
        (HasHandle(s, "Authenticated") \/ HasHandle(s, "Authorized")) =>
            /\ Len(log[s]) >= 1
            /\ HasHandle(s, "Authorized") => Len(log[s]) >= 2
            /\ Unwrap(handle[s]).user = AuthenticationOf(s).backend_user
            /\ HasHandle(s, "Authorized") =>
                  /\ AuthenticationOf(s).backend_user # None
                  /\ Last(log[s]).args.required_capabilities
                        \subseteq Unwrap(AuthenticationOf(s).backend_user).capabilities

\* an Authorized handle for a required capability that the tables no longer
\* give to the principal
C6_Witness ==
    \E s \in Seqs :
        /\ HasHandle(s, "Authorized")
        /\ Last(log[s]).args.required_capabilities # {}
        /\ LET held == Unwrap(Unwrap(handle[s]).user)
           IN \A c \in held.capabilities :
                 [label |-> c, user_id |-> held.user_id] \notin capabilities

\* the password does not verify against what the backend returned for the
\* identifier: the identifier is unknown, or the stored text is not the hash
\* of the password
WrongPassword(e) ==
    \/ e.backend_user = None
    \/ Unwrap(e.backend_user).password_hash.kind # "phc"
    \/ Unwrap(e.backend_user).password_hash.pw # e.args.password

\* C7: every authenticate_creds makes one identifier lookup, one hash
\* verification and no hash generation, and with a wrong password it
\* returns Error::Authentication whether the identifier exists or not.
C7_ConstantShape ==
    \A s \in Seqs :
        \A i \in Completed(s, "authenticate_creds") :
            /\ log[s][i].calls = Calls(1, 0, 0, 1, 0)
            /\ WrongPassword(log[s][i]) => IsAuthenticationError(log[s][i])

\* C8: for a principal whose stored hash is the hash of p,
\* authenticate_creds with q returns a handle wrapping that principal when
\* q = p and Error::Authentication when q differs from p.
C8_ValidLogin ==
    \A s \in Seqs :
        \A i \in Completed(s, "authenticate_creds") :
            LET e == log[s][i]
            IN (e.backend_user # None /\ Unwrap(e.backend_user).password_hash.kind = "phc")
               => LET p == Unwrap(e.backend_user).password_hash.pw
                      q == e.args.password
                  IN /\ q = p => (e.tag = "Ok" /\ e.user = e.backend_user)
                     /\ q # p => IsAuthenticationError(e)

\* a password of the right length that is not the registered one was
\* rejected
C8_Witness ==
    \E s \in Seqs :
        \E i \in Completed(s, "authenticate_creds") :
            LET e == log[s][i]
            IN /\ e.backend_user # None
               /\ Unwrap(e.backend_user).password_hash.kind = "phc"
               /\ e.args.password # Unwrap(e.backend_user).password_hash.pw
               /\ chars_count(e.args.password)
                     = chars_count(Unwrap(e.backend_user).password_hash.pw)
               /\ IsAuthenticationError(e)

\* C9: no call of the engine and no login of the middleware panics.
C9_NoPanic ==
    \A s \in Seqs :
        \A i \in DOMAIN log[s] : log[s][i].tag # "Panic"

\* C10: for a policy-valid identifier and password register returns Ok(())
\* whether the backend stored the account or failed.
C10_RegistrationMasking ==
    \A s \in Seqs :
        \A i \in Completed(s, "register") :
            register_policy(log[s][i].args.username, log[s][i].args.password) = None
                => (log[s][i].tag = "Ok" /\ log[s][i].error = "none")

\* register returned Ok(()) although the identifier was taken and the
\* backend refused the insertion
C10_Witness ==
    \E s \in Seqs :
        \E i \in Completed(s, "register") :
            /\ log[s][i].tag = "Ok"
            /\ ~log[s][i].backend_ok
            /\ log[s][i].calls.register_user = 1
            /\ db_up
            /\ \E r \in users : r.username = to_lowercase(log[s][i].args.username)

\* the calls sequence s completes in a step: the entries of its history
\* after the step that were not there before
NewEntries(s) ==
    IF log'[s] = log[s] THEN {}
    ELSE IF /\ Len(log'[s]) > Len(log[s])
            /\ SubSeq(log'[s], 1, Len(log[s])) = log[s]
         THEN (Len(log[s]) + 1)..Len(log'[s])
         ELSE DOMAIN log'[s]

RegisterOps == {"register", "do_register"}

\* C11: a registration that ends in Error::UsernamePolicy or
\* Error::PasswordPolicy has called no operation of the backend and leaves
\* the stored accounts as they were, and so does every registration, through
\* the engine or the /register route, with a password of 11 or of 257
\* characters: an identifier without an account before the attempt has none
\* after it.
C11_PolicyRejectionStoresNothing ==
    [][\A s \in Seqs : \A i \in NewEntries(s) :
          LET e == log'[s][i]
          IN /\ (e.op = "register" /\ e.tag = "Err"
                    /\ e.error \in {"UsernamePolicy", "PasswordPolicy"})
                => (e.calls = NoCalls /\ users' = users)
             /\ (e.op \in RegisterOps /\ chars_count(e.args.password) \in {11, 257})
                => /\ e.tag = "Err"
                   /\ e.calls.register_user = 0
                   /\ users' = users
                   /\ ~(\E r \in users : r.username = to_lowercase(e.args.username))
                         => ~(\E r \in users' :
                                 r.username = to_lowercase(e.args.username))]_vars

\* register has rejected a password of 257 characters for an identifier the
\* policy accepts, and no account of that identifier is stored
C11_Witness ==
    \E s \in Seqs :
        /\ log[s] # <<>>
        /\ Last(log[s]).op = "register"
        /\ Last(log[s]).error = "PasswordPolicy"
        /\ chars_count(Last(log[s]).args.password) = 257
        /\ Last(log[s]).args.username = <<"a">>
        /\ ~(\E r \in users : r.username = <<"a">>)

\* the identifier is not empty and all characters of its lower-case form are
\* ASCII letters or digits
PolicyValidIdentifier(username) ==
    /\ to_lowercase(username) # <<>>
    /\ \A i \in DOMAIN username :
          is_ascii_alphanumeric(to_lowercase(username)[i])

\* C12: register returns Error::UsernamePolicy exactly when the lower-case
\* form of the identifier is empty or has a character that is not an ASCII
\* letter or digit; an identifier that is not empty and whose lower-case
\* form is ASCII alphanumeric passes the identifier check, whatever happens
\* to the registration afterwards.
C12_UsernamePolicyExactly ==
    \A s \in Seqs : \A i \in Completed(s, "register") :
        LET e == log[s][i]
            name == to_lowercase(e.args.username)
        IN (e.tag = "Err" /\ e.error = "UsernamePolicy")
           <=> (name = <<>> \/ \E k \in DOMAIN name : name[k] \notin {"a", "k"})

\* register has taken the Kelvin sign, not an ASCII character but one whose
\* lower case is the ASCII letter k, as an identifier
C12_Witness ==
    \E s \in Seqs : \E i \in Completed(s, "register") :
        /\ log[s][i].args.username = <<"KELVIN">>
        /\ log[s][i].tag = "Ok"
        /\ \E r \in users : r.username = <<"k">>

\* C13: for an identifier the policy accepts, register returns
\* Error::PasswordPolicy exactly when the password has fewer than 12 or more
\* than 256 characters: 11 rejected, 12 and 256 accepted, 257 rejected.
C13_PasswordPolicyExactly ==
    \A s \in Seqs : \A i \in Completed(s, "register") :
        LET e == log[s][i]
            n == chars_count(e.args.password)
        IN PolicyValidIdentifier(e.args.username)
           => /\ (e.tag = "Err" /\ e.error = "PasswordPolicy") <=> (n < 12 \/ n > 256)
              /\ n \in {11, 257} => e.tag = "Err"
              /\ n \in {12, 256} => e.tag = "Ok"

\* register has accepted a password of 256 characters
C13_Witness ==
    \E s \in Seqs : \E i \in Completed(s, "register") :
        /\ PolicyValidIdentifier(log[s][i].args.username)
        /\ chars_count(log[s][i].args.password) = 256
        /\ log[s][i].tag = "Ok"
        /\ log[s][i].calls.register_user = 1

\* C14: the identifier is checked before the password and the first failure
\* is the one returned: when both violate the policy register returns
\* Error::UsernamePolicy, never Error::PasswordPolicy.
C14_IdentifierCheckedFirst ==
    \A s \in Seqs : \A i \in Completed(s, "register") :
        LET e == log[s][i]
            n == chars_count(e.args.password)
        IN (~PolicyValidIdentifier(e.args.username) /\ (n < 12 \/ n > 256))
           => (e.tag = "Err" /\ e.error = "UsernamePolicy")

\* register has answered an identifier with punctuation and a password of 11
\* characters
C14_Witness ==
    \E s \in Seqs : \E i \in Completed(s, "register") :
        /\ log[s][i].args.username = <<"a", "@">>
        /\ chars_count(log[s][i].args.password) = 11
        /\ log[s][i].error = "UsernamePolicy"

\* C15: every registration that reaches the store, through register or
\* through do_register, has called the account creation exactly once, and
\* the account it created is stored under the lower-case identifier with a
\* hash computed from the submitted password, never with the submitted
\* password itself.
C15_StoresComputedHash ==
    \A s \in Seqs : \A i \in DOMAIN log[s] :
        LET e == log[s][i]
        IN (e.op \in RegisterOps /\ e.calls.register_user > 0)
           => /\ e.calls.register_user = 1
              /\ e.backend_ok
                 => \E r \in users :
                       /\ r.username = to_lowercase(e.args.username)
                       /\ r.password_hash # RawText(e.args.password)
                       /\ \E salt \in Salts :
                             r.password_hash
                                = hash_password_simple(e.args.password, salt)

\* C16: authenticate_session returns a handle in phase Authenticated
\* exactly when the session lookup of the backend returned a principal, and
\* the handle wraps that principal; when the lookup returned none (no row,
\* expired row, lookup failed) it returns Error::Authentication.
C16_SessionAuthenticationIffPrincipal ==
    \A s \in Seqs : \A i \in Completed(s, "authenticate_session") :
        LET e == log[s][i]
        IN /\ e.backend_user # None
              => /\ e.tag = "Ok"
                 /\ e.user = e.backend_user
                 /\ i = Len(log[s])
                    => handle[s] = Some(AccessControl("Authenticated", e.backend_user))
           /\ e.backend_user = None
              => /\ IsAuthenticationError(e)
                 /\ e.user = None
                 /\ i = Len(log[s]) => handle[s] = None

\* authenticate_session has failed for a stored session because the lookup
\* failed, the database being down
C16_Witness ==
    \E s \in Seqs :
        /\ log[s] # <<>>
        /\ Last(log[s]).op = "authenticate_session"
        /\ IsAuthenticationError(Last(log[s]))
        /\ ~db_up
        /\ \E r \in sessions : r.session_id = Last(log[s]).args.session_id

\* C17: a session stored at time t carries the expiration date t + 5
\* minutes, and an authenticate_session that the backend answers when every
\* stored row of the presented session id is at or past its expiration date
\* returns Error::Authentication, although the row is still stored.
C17_SessionExpiry ==
    [][/\ \A r \in sessions' \ sessions : r.expiration_date = now + 5
       /\ \A s \in Seqs : \A i \in NewEntries(s) :
             LET e == log'[s][i]
             IN (/\ e.op = "authenticate_session"
                 /\ \A r \in sessions :
                       r.session_id = e.args.session_id => now >= r.expiration_date)
                => IsAuthenticationError(e)]_vars

\* authenticate_session has failed for a session id whose row is stored and
\* whose expiration date is the present time
C17_Witness ==
    \E s \in Seqs :
        /\ log[s] # <<>>
        /\ Last(log[s]).op = "authenticate_session"
        /\ IsAuthenticationError(Last(log[s]))
        /\ db_up
        /\ \E r \in sessions :
              /\ r.session_id = Last(log[s]).args.session_id
              /\ r.expiration_date = now
              /\ \E u \in users : u.user_id = r.user_id

\* C18: get_user returns exactly the principal the backend returned to the
\* authentication of its sequence; a successful authorize passes on the
\* principal of the handle it was given; and the step in which authorize or
\* get_user runs calls no operation of the backend and leaves the state of
\* the backend as it was.
C18_PrincipalPassedUnchanged ==
    [][\A s \in Seqs : \A i \in NewEntries(s) :
          LET q == log'[s]
              e == q[i]
          IN /\ e.op \in {"authorize", "get_user"}
                => (e.calls = NoCalls /\ UNCHANGED backend_vars)
             /\ (e.op = "authorize" /\ e.tag = "Ok")
                => (e.user # None /\ e.user = q[i-1].user)
             /\ e.op = "get_user"
                => /\ e.tag = "Ok"
                   /\ e.user # None
                   /\ e.user = q[i-1].user
                   /\ q[i-2].op \in AuthenticateOps
                   /\ e.user = q[i-2].backend_user]_vars

\* get_user has returned a principal with a capability that the database
\* has lost since the authentication
C18_Witness ==
    \E s \in Seqs :
        /\ log[s] # <<>>
        /\ Last(log[s]).op = "get_user"
        /\ Last(log[s]).tag = "Ok"
        /\ Unwrap(Last(log[s]).user).capabilities = {"UserRead"}
        /\ capabilities = {}

\* the operations of the engine that take the handle by value, and the phase
\* each of them leaves: Start, Authenticated, Authorized
EngineOps ==
    {"authenticate_creds", "authenticate_session", "register", "authorize", "get_user"}
PhaseLeft(op) ==
    IF op = "authorize" THEN "Authenticated"
    ELSE IF op = "get_user" THEN "Authorized"
    ELSE "Start"
PhaseBefore(p, q) ==
    <<p, q>> \in {<<"Start", "Authenticated">>, <<"Start", "Authorized">>,
                  <<"Authenticated", "Authorized">>}
EngineCalls(s) == {i \in DOMAIN log[s] : log[s][i].op \in EngineOps}

\* C19: on one handle the phase only moves forward, Start to Authenticated
\* to Authorized: of two engine calls the later one leaves a later phase, so
\* no phase is left twice or entered again; and the one transition tried
\* on a handle consumes it: after a call that failed, or after register or
\* get_user, no further engine call follows and no handle is left, while a
\* call is in flight the sequence holds no handle, and a handle that is
\* held is in the phase the last successful call entered.
C19_ForwardOnlyConsumingHandles ==
    \A s \in Seqs :
        /\ \A i, j \in EngineCalls(s) :
              i < j => PhaseBefore(PhaseLeft(log[s][i].op), PhaseLeft(log[s][j].op))
        /\ \A i \in EngineCalls(s) :
              (log[s][i].tag # "Ok" \/ log[s][i].op \in {"register", "get_user"})
              => /\ \A j \in EngineCalls(s) : j <= i
                 /\ handle[s] = None
        /\ pc[s] # "idle" => handle[s] = None
        /\ handle[s] # None
           => LET h == Unwrap(handle[s])
              IN IF h.state = "Start" THEN EngineCalls(s) = {}
                 ELSE \E i \in EngineCalls(s) :
                         /\ \A j \in EngineCalls(s) : j <= i
                         /\ log[s][i].tag = "Ok"
                         /\ PhaseBefore(PhaseLeft(log[s][i].op), h.state)
                         /\ ~(\E p \in {"Authenticated", "Authorized"} :
                                 /\ PhaseBefore(PhaseLeft(log[s][i].op), p)
                                 /\ PhaseBefore(p, h.state))

\* authorize has refused a principal that holds a capability, and the
\* sequence, idle again, holds no handle to authorize once more
C19_Witness ==
    \E s \in Seqs :
        /\ log[s] # <<>>
        /\ Last(log[s]).op = "authorize"
        /\ IsAuthorizationError(Last(log[s]))
        /\ Len(log[s]) > 1
        /\ Unwrap(log[s][Len(log[s]) - 1].user).capabilities # {}
        /\ pc[s] = "idle"
        /\ handle[s] = None

\* the calls of the entry to the three operations of the backend the engine
\* uses: get_user, get_user_from_session, register_user
BackendCalls(e) ==
    <<e.calls.get_user, e.calls.get_user_from_session, e.calls.register_user>>

\* C20: no engine call repeats a call to the backend: authenticate_creds
\* calls get_user exactly once, authenticate_session calls the session
\* lookup exactly once, register calls register_user exactly once when the
\* policy is passed and not at all when it is not, authorize and get_user
\* call nothing, and no call touches an operation of the backend other than
\* its own.
C20_OneBackendCallPerOperation ==
    \A s \in Seqs : \A i \in EngineCalls(s) :
        LET e == log[s][i]
            n == chars_count(e.args.password)
        IN /\ e.op = "authenticate_creds" => BackendCalls(e) = <<1, 0, 0>>
           /\ e.op = "authenticate_session" => BackendCalls(e) = <<0, 1, 0>>
           /\ e.op = "register"
              => BackendCalls(e) =
                    IF PolicyValidIdentifier(e.args.username) /\ n >= 12 /\ n <= 256
                    THEN <<0, 0, 1>> ELSE <<0, 0, 0>>
           /\ e.op \in {"authorize", "get_user"} => BackendCalls(e) = <<0, 0, 0>>

\* register has returned after a register_user that failed with the
\* database down: one call was made and the account is not stored
C20_Witness ==
    \E s \in Seqs : \E i \in Completed(s, "register") :
        /\ ~log[s][i].backend_ok
        /\ log[s][i].tag = "Ok"
        /\ log[s][i].calls.register_user = 1
        /\ ~db_up
        /\ users = {}

AwaitingOps == {"authenticate_creds", "authenticate_session", "register"}

\* the calls sequence s has abandoned while they awaited the backend
Cancelled(s) == {i \in DOMAIN log[s] : log[s][i].tag = "Cancelled"}

\* C21: while a call of authenticate_creds, authenticate_session or
\* register awaits the backend, and after such a call was abandoned there,
\* the sequence holds no handle at all, so none in phase Authenticated or
\* Authorized, and nothing of the call is left behind; a handle of phase
\* Authenticated or Authorized is held only after an authentication whose
\* await completed and whose check succeeded, and no abandoned call lies
\* between that authentication and the handle.
C21_CancellationSafety ==
    \A s \in Seqs :
        /\ pc[s] \in AwaitingOps => handle[s] = None
        /\ \A i \in Cancelled(s) :
              /\ i = Len(log[s])
              /\ log[s][i].op \in AwaitingOps
              /\ handle[s] = None
              /\ pc[s] = "idle"
              /\ args[s] = NoArgs
        /\ (handle[s] # None /\ Unwrap(handle[s]).state \in {"Authenticated", "Authorized"})
           => /\ Cancelled(s) = {}
              /\ \E i \in DOMAIN log[s] :
                    /\ log[s][i].op \in AuthenticateOps
                    /\ log[s][i].tag = "Ok"
                    /\ log[s][i].calls.get_user + log[s][i].calls.get_user_from_session = 1

\* a sequence has abandoned an authenticate_creds with the right password
\* of a stored account and holds nothing, while another sequence holds an
\* Authenticated handle
C21_Witness ==
    \E s, t \in Seqs :
        /\ log[s] # <<>>
        /\ Last(log[s]).tag = "Cancelled"
        /\ Last(log[s]).op = "authenticate_creds"
        /\ \E r \in users :
              /\ r.username = Last(log[s]).args.username
              /\ verify_password(Last(log[s]).args.password, r.password_hash)
        /\ handle[s] = None
        /\ HasHandle(t, "Authenticated")

\* what sequence s holds and does: its handle, its pending call, its history
SequenceState(s) == <<handle[s], pc[s], args[s], log[s]>>

\* C22: sequences that share the backend are isolated in the engine: a step
\* changes the handle, the pending call or the history of at most one
\* sequence, and the handle a sequence gets from a call is the result of
\* that call on the sequence's own arguments, its own previous handle and
\* the answer of the backend to its own request.
C22_SequencesIsolated ==
    [][\A s \in Seqs :
          /\ SequenceState(s)' # SequenceState(s)
             => \A t \in Seqs \ {s} : SequenceState(t)' = SequenceState(t)
          /\ \A i \in NewEntries(s) :
                LET e == log'[s][i]
                IN /\ e.op = "authenticate_creds" /\ e.tag # "Cancelled"
                      => /\ e.args = args[s]
                         /\ e.backend_user
                               = look_up_user(db_up, users, capabilities, args[s].username)
                         /\ handle'[s]
                               = authenticate_creds(new, e.backend_user,
                                                    args[s].password).handle
                   /\ e.op = "authenticate_session" /\ e.tag # "Cancelled"
                      => /\ e.args = args[s]
                         /\ e.backend_user
                               = look_up_user_from_session(db_up, users, capabilities,
                                     sessions, now, args[s].session_id)
                         /\ handle'[s] = authenticate_session(new, e.backend_user).handle
                   /\ e.op = "authorize"
                      => handle'[s]
                            = authorize(Unwrap(handle[s]),
                                        e.args.required_capabilities).handle
                   /\ e.op = "get_user"
                      => (handle'[s] = None /\ e.user = Unwrap(handle[s]).user)]_vars

\* one sequence holds an Authorized handle of an account while another one,
\* which asked for an unknown identifier with the same password, was refused
C22_Witness ==
    \E s, t \in Seqs :
        /\ s # t
        /\ HasHandle(s, "Authorized")
        /\ Unwrap(handle[s]).user # None
        /\ log[t] # <<>>
        /\ Last(log[t]).op = "authenticate_creds"
        /\ IsAuthenticationError(Last(log[t]))
        /\ \E i \in Completed(s, "authenticate_creds") :
              /\ log[s][i].args.password = Last(log[t]).args.password
              /\ log[s][i].args.username # Last(log[t]).args.username

\* the error kinds with which an operation of the engine may fail
OwnErrors(op) ==
    IF op \in AuthenticateOps THEN {"Authentication"}
    ELSE IF op = "authorize" THEN {"Authorization"}
    ELSE IF op = "register" THEN {"UsernamePolicy", "PasswordPolicy"}
    ELSE {}

\* C23: a call of the engine that does not succeed returns an error of the
\* kind of its operation: Error::Authentication from authenticate_creds and
\* authenticate_session, Error::Authorization from authorize,
\* Error::UsernamePolicy or Error::PasswordPolicy from register, and fails
\* in no other way; an authorize on an authenticated principal whose
\* capabilities do not cover the required ones returns Error::Authorization.
C23_OwnErrorKind ==
    \A s \in Seqs : \A i \in EngineCalls(s) :
        LET e == log[s][i]
        IN /\ e.tag \notin {"Ok", "Cancelled"}
              => (e.tag = "Err" /\ e.error \in OwnErrors(e.op))
           /\ (/\ e.op = "authorize"
               /\ log[s][i-1].user # None
               /\ ~(e.args.required_capabilities
                      \subseteq Unwrap(log[s][i-1].user).capabilities))
              => IsAuthorizationError(e)

LogoutOps == {"logout", "do_logout"}

\* C24: when a request that logs out and carries an id cookie has been
\* answered, no session is stored under the value of that cookie, and an
\* authenticate_session with that value, answered by the backend as it is
\* then, returns Error::Authentication.
C24_LogoutUnbindsSession ==
    \A s \in Seqs :
        (/\ log[s] # <<>>
         /\ Last(log[s]).op \in LogoutOps
         /\ Last(log[s]).args.session_id \in SessionIds)
        => LET token == Last(log[s]).args.session_id
           IN /\ ~(\E r \in sessions : r.session_id = token)
              /\ authenticate_session(new, Backend_get_user_from_session(token))
                    = Err("Authentication")

\* C25: the response to a request that logs out is the normal response of
\* the handler, whatever remove_session answered, and it expires the id
\* cookie whenever the request carried one: a failure of remove_session is
\* not reported to the caller.
C25_LogoutBestEffort ==
    \A s \in Seqs : \A i \in Completed(s, "logout") :
        LET e == log[s][i]
        IN /\ e.tag = "Ok"
           /\ e.error = "none"
           /\ e.args.session_id \in SessionIds => e.set_cookie = Some(ExpiredCookie)

\* a request has logged out with the id cookie of a stored session while
\* the database was down: the session is still stored, the response is the
\* normal one and expires the cookie
C25_Witness ==
    \E s \in Seqs :
        /\ log[s] # <<>>
        /\ Last(log[s]).op = "logout"
        /\ ~Last(log[s]).backend_ok
        /\ Last(log[s]).tag = "Ok"
        /\ Last(log[s]).set_cookie = Some(ExpiredCookie)
        /\ \E r \in sessions : r.session_id = Last(log[s]).args.session_id

\* C26: the users table never holds two rows of one username, and a
\* register_user with a username that is stored returns an error and
\* leaves the table, with the stored row and its password hash, as it was.
C26_UsernamesUnique ==
    [][/\ \A r1, r2 \in users' : r1.username = r2.username => r1 = r2
       /\ \A s \in Seqs : \A i \in NewEntries(s) :
             LET e == log'[s][i]
             IN (/\ e.op = "register_user"
                 /\ \E r \in users : r.username = e.args.username)
                => (e.tag = "Err" /\ users' = users)]_vars

\* with two accounts stored, a register_user with the username of one of
\* them and another password hash has failed and the stored hash is the
\* old one
C26_Witness ==
    \E s \in Seqs :
        /\ log[s] # <<>>
        /\ Last(log[s]).op = "register_user"
        /\ Last(log[s]).tag = "Err"
        /\ Cardinality(users) = 2
        /\ \E r \in users :
              /\ r.username = Last(log[s]).args.username
              /\ r.password_hash # Last(log[s]).args.password_hash

\* C27: a look_up_user succeeds exactly for the usernames that are stored
\* and returns the stored row; directly after a register_user that
\* succeeded the account is retrievable by its username with the stored
\* hash and an empty capability set, the capabilities table is as it was,
\* and authorize with any non-empty required set refuses that principal.
C27_FreshAccountHasNoCapability ==
    [][\A s \in Seqs : \A i \in NewEntries(s) :
          LET e == log'[s][i]
          IN /\ e.op = "look_up_user"
                => /\ e.tag = "Ok" <=> \E r \in users : r.username = e.args.username
                   /\ e.tag = "Ok"
                      => \E r \in users :
                            /\ r.username = e.args.username
                            /\ Unwrap(e.user).username = r.username
                            /\ Unwrap(e.user).user_id = r.user_id
                            /\ Unwrap(e.user).password_hash = r.password_hash
             /\ (e.op = "register_user" /\ e.tag = "Ok")
                => LET u == look_up_user(db_up', users', capabilities', e.args.username)
                   IN /\ u # None
                      /\ Unwrap(u).username = e.args.username
                      /\ Unwrap(u).password_hash = e.args.password_hash
                      /\ Unwrap(u).capabilities = {}
                      /\ capabilities' = capabilities
                      /\ \A required \in SUBSET Capabilities :
                            required # {}
                            => authorize(AccessControl("Authenticated", u), required)
                                  = Err("Authorization")]_vars

\* a second account has been registered while the first one holds a
\* capability, and its lookup shows no capability
C27_Witness ==
    \E s \in Seqs :
        /\ log[s] # <<>>
        /\ Last(log[s]).op = "register_user"
        /\ Last(log[s]).tag = "Ok"
        /\ \E c \in capabilities : c.user_id = 1
        /\ LET u == look_up_user(db_up, users, capabilities, Last(log[s]).args.username)
           IN u # None /\ Unwrap(u).user_id = 2 /\ Unwrap(u).capabilities = {}

\* C28: a look_up_user_from_session with a session id that is stored and
\* not yet expired succeeds and returns the account the session was stored
\* for, equal in identifier, hash and capability set to what look_up_user
\* returns for the username of that account.
C28_SessionRoundTrip ==
    [][\A s \in Seqs : \A i \in NewEntries(s) :
          LET e == log'[s][i]
          IN e.op = "look_up_user_from_session"
             => \A r \in sessions :
                   (r.session_id = e.args.session_id /\ r.expiration_date > now)
                   => /\ e.tag = "Ok"
                      /\ Unwrap(e.user).user_id = r.user_id
                      /\ e.user = look_up_user(db_up, users, capabilities,
                                                Unwrap(e.user).username)]_vars

\* the session of the second account, which holds a capability, has been
\* looked up one minute before it expires
C28_Witness ==
    \E s \in Seqs :
        /\ log[s] # <<>>
        /\ Last(log[s]).op = "look_up_user_from_session"
        /\ Last(log[s]).tag = "Ok"
        /\ Unwrap(Last(log[s]).user).user_id = 2
        /\ Unwrap(Last(log[s]).user).capabilities # {}
        /\ \E r \in sessions :
              r.session_id = Last(log[s]).args.session_id /\ r.expiration_date = now + 1

\* C29: the response of POST /register to an identifier and a password that
\* the policy accepts is the same whether or not the identifier is
\* registered: it is the response the same request gets, the database in
\* the same condition, from a store without an account of that identifier.
C29_RegistrationResponseMasksExistence ==
    [][\A s \in Seqs : \A i \in NewEntries(s) :
          LET e == log'[s][i]
              n == chars_count(e.args.password)
              others == {r \in users : r.username # to_lowercase(e.args.username)}
              unregistered == do_register(db_up, others, e.args.username,
                                          e.args.password)
          IN (/\ e.op = "do_register"
              /\ PolicyValidIdentifier(e.args.username)
              /\ n >= 12 /\ n <= 256)
             => (e.tag = unregistered.tag /\ e.error = unregistered.error)]_vars

----------------------------------------------------------------------------
(* The id cookie of a login *)

\* C31: the response to a login sets an id cookie only when login returned
\* Ok: then authenticate_creds succeeded earlier in the same request for
\* the principal login returns, and the step has stored a session, not
\* stored before, under the value of the cookie for that principal.  A login
\* that ends in any other way (authentication failed, store_session failed,
\* panic) stores no session and sets no cookie, and after a failed
\* store_session login returns an error.
C31_CookieOnlyForStoredVerifiedSession ==
    [][\A s \in Seqs : \A i \in NewEntries(s) :
          LET e == log'[s][i]
          IN e.op = "login" =>
             /\ e.set_cookie # None
                => /\ e.tag = "Ok"
                   /\ e.user # None
                   /\ \E j \in 1..(i - 1) :
                         /\ log'[s][j].op = "authenticate_creds"
                         /\ log'[s][j].tag = "Ok"
                         /\ log'[s][j].user = e.user
                   /\ Unwrap(e.set_cookie) = IdCookie(e.args.session_id)
                   /\ ~(\E r \in sessions : r.session_id = e.args.session_id)
                   /\ \E r \in sessions' :
                         /\ r.session_id = e.args.session_id
                         /\ r.user_id = Unwrap(e.user).user_id
             /\ e.tag # "Ok" => (e.set_cookie = None /\ sessions' = sessions)
             /\ e.tag = "Ok" => e.set_cookie # None
             /\ (~e.backend_ok /\ e.args.user # None)
                => (e.tag = "Err" /\ e.error = "backend unavailable")]_vars

\* a login has set the id cookie of a session that is stored for the
\* principal it returned
C31_Witness ==
    \E s \in Seqs :
        /\ log[s] # <<>>
        /\ Last(log[s]).op = "login"
        /\ Last(log[s]).tag = "Ok"
        /\ Last(log[s]).set_cookie = Some(IdCookie(Last(log[s]).args.session_id))
        /\ \E r \in sessions :
              /\ r.session_id = Last(log[s]).args.session_id
              /\ r.user_id = Unwrap(Last(log[s]).user).user_id

----------------------------------------------------------------------------
(* The UserDetails extractor *)

\* the live sessions stored under a session id: those that have not
\* reached their expiration date
LiveSessions(session_id) ==
    {r \in sessions : r.session_id = session_id /\ r.expiration_date > now}

\* the labels the capabilities table holds for an account
CapabilitiesOf(user_id) ==
    {c.label : c \in {r \in capabilities : r.user_id = user_id}}

\* C32: the extractor yields a principal only for a request with an id
\* cookie under which the backend, when it answers, finds a session that
\* has not expired, of an account whose capabilities include every
\* capability the route requires, and the principal is that account.  A
\* request without the cookie is redirected to /login without a call of the
\* backend; with a cookie of no live session (or with the database
\* unreachable) it is answered Unauthorized, and with a live session of an
\* account that lacks a required capability Forbidden.
C32_ExtractorYieldsAuthorizedPrincipal ==
    [][\A s \in Seqs : \A i \in NewEntries(s) :
          LET e == log'[s][i]
              t == e.args.session_id
              live == IF db_up THEN LiveSessions(t) ELSE {}
              required == e.args.required_capabilities
          IN e.op = "user_details" =>
             /\ e.tag \in {"Ok", "Err", "Redirect"}
             /\ e.tag = "Ok"
                => /\ t \in SessionIds
                   /\ e.user # None
                   /\ \E r \in live : \E u \in users :
                         /\ u.user_id = r.user_id
                         /\ Unwrap(e.user).user_id = u.user_id
                         /\ Unwrap(e.user).username = u.username
                         /\ Unwrap(e.user).capabilities = CapabilitiesOf(u.user_id)
                         /\ required \subseteq CapabilitiesOf(u.user_id)
             /\ t \notin SessionIds
                => (e.tag = "Redirect" /\ e.error = "/login" /\ e.calls = NoCalls)
             /\ (t \in SessionIds /\ live = {})
                => (e.tag = "Err" /\ e.error = "Unauthorized")
             /\ (t \in SessionIds /\ live # {}
                    /\ \E r \in live : ~(required \subseteq CapabilitiesOf(r.user_id)))
                => (e.tag = "Err" /\ e.error = "Forbidden")
             /\ e.tag # "Ok" => e.user = None]_vars

\* the extractor has yielded the principal of a live session on the route
\* that requires UserRead
C32_Witness ==
    \E s \in Seqs :
        /\ log[s] # <<>>
        /\ Last(log[s]).op = "user_details"
        /\ Last(log[s]).tag = "Ok"
        /\ Last(log[s]).args.required_capabilities = {"UserRead"}
        /\ "UserRead" \in Unwrap(Last(log[s]).user).capabilities

----------------------------------------------------------------------------
(* Session bindings *)

\* the accounts under which authenticate_session, answered by the backend
\* as it is after the step, authenticates a session id
AuthenticatedBySession(session_id) ==
    LET b == look_up_user_from_session(db_up', users', capabilities', sessions',
                                       now', session_id)
        r == authenticate_session(new, b)
    IN IF r.tag = "Ok" THEN {Unwrap(Unwrap(r.handle).user).user_id} ELSE {}

----------------------------------------------------------------------------
(* The frame of logout *)

\* C34: a step that answers a request that logs out leaves every account
\* and every capability as it was and removes no session but the one stored
\* under the value of the request's id cookie; the step before it, in which
\* the middleware suspends at remove_session, changes nothing in the
\* database.  A request without an id cookie is answered without suspending
\* at the backend, with the database unchanged and no cookie set.
C34_LogoutRemovesOnlyNamedSession ==
    [][/\ \A s \in Seqs : \A i \in NewEntries(s) :
             LET e == log'[s][i]
             IN e.op \in LogoutOps =>
                /\ users' = users
                /\ capabilities' = capabilities
                /\ sessions' \subseteq sessions
                /\ \A r \in sessions \ sessions' : r.session_id = e.args.session_id
                /\ e.args.session_id \notin SessionIds
                   => /\ sessions' = sessions
                      /\ e.set_cookie = None
                      /\ Idle(s)
       /\ \A s \in Seqs :
             (pc'[s] = "logout" /\ pc[s] # "logout") => UNCHANGED backend_vars]_vars

\* the middleware has removed the session of a logout while both accounts
\* are stored, one of them holds a capability, and the only session left is
\* one of the second account under another session id
C34_Witness ==
    \E s \in Seqs :
        /\ log[s] # <<>>
        /\ Last(log[s]).op = "logout"
        /\ Last(log[s]).backend_ok
        /\ Cardinality(users) = 2
        /\ capabilities # {}
        /\ Cardinality(sessions) = 1
        /\ \A r \in sessions :
              r.session_id # Last(log[s]).args.session_id /\ r.user_id = 2

----------------------------------------------------------------------------
(* The header-based middleware *)

\* the calls of the wrapped service in the history of a request
ServiceCalls(s) == Completed(s, "service_call")

\* C35: the wrapped service is called only after, in this order and for
\* the same request, the authentication has returned Ok with a principal,
\* authorize has returned Ok for the configured permission, which the
\* principal holds, get_user has returned that principal and the principal
\* has been inserted into the extensions of the request; a request whose
\* authentication or authorization did not return Ok never reaches the
\* wrapped service.
C35_ServiceOnlyAfterAccessCheck ==
    \A s \in Seqs :
        /\ \A i \in ServiceCalls(s) :
              /\ i >= 5
              /\ LET e1 == log[s][i - 4]
                     e2 == log[s][i - 3]
                     e3 == log[s][i - 2]
                     e4 == log[s][i - 1]
                     required == log[s][i].args.required_capabilities
                 IN /\ e1.op = "authenticate_creds" /\ e1.tag = "Ok" /\ e1.user # None
                    /\ e2.op = "authorize" /\ e2.tag = "Ok"
                    /\ e2.args.required_capabilities = required
                    /\ required # {}
                    /\ required \subseteq Unwrap(e1.user).capabilities
                    /\ e3.op = "get_user" /\ e3.tag = "Ok" /\ e3.user = e1.user
                    /\ e4.op = "extensions_insert" /\ e4.user = e1.user
        /\ (\E j \in DOMAIN log[s] :
               /\ log[s][j].op \in {"authenticate_creds", "authorize"}
               /\ log[s][j].tag # "Ok")
           => ServiceCalls(s) = {}

\* the wrapped service has been called for a request of the account, which
\* holds the configured permission
C35_Witness ==
    \E s \in Seqs : \E i \in ServiceCalls(s) :
        /\ log[s][i].args.required_capabilities = {"UserRead"}
        /\ Last(log[s]).op = "header_call"
        /\ Last(log[s]).tag = "Ok"

\* a header is well formed when it is text that holds a '#'
WellFormed(header) ==
    /\ header # None
    /\ Unwrap(header).to_str # None
    /\ \E i \in DOMAIN Unwrap(Unwrap(header).to_str) :
          Unwrap(Unwrap(header).to_str)[i].sep

\* C36: every request whose Authorization header is missing, is not text
\* or holds no '#' is answered with a Bad Request error: the middleware
\* does not panic and does not call the wrapped service.
C36_MalformedHeaderIsBadRequest ==
    \A s \in Seqs : \A i \in Completed(s, "header_call") :
        ~WellFormed(log[s][i].args.header)
        => /\ log[s][i].tag = "Err"
           /\ log[s][i].error = "BadRequest"
           /\ ServiceCalls(s) = {}

----------------------------------------------------------------------------
(* Concurrent registration *)

\* sequence s has completed a register whose policy checks passed
Registered(s) ==
    /\ log[s] # <<>>
    /\ Last(log[s]).op = "register"
    /\ Last(log[s]).calls.register_user = 1

\* the passwords among ps that authenticate the identifier, the backend
\* being reachable
Authenticating(username, ps) ==
    {p \in ps :
        authenticate_creds(new, look_up_user(TRUE, users, capabilities, username),
                           p).tag = "Ok"}

\* the outcome of every two completed registers of one identifier: both
\* returned Ok(()), at most one insertion succeeded, at most one account of
\* the identifier is stored, and when the insertion of s succeeded the
\* account holds the hash s passed, the password of s authenticates and a
\* different password of t does not
RegisteredPairsAgree ==
    \A s, t \in Seqs :
        (/\ s # t
         /\ Registered(s)
         /\ Registered(t)
         /\ to_lowercase(Last(log[s]).args.username)
               = to_lowercase(Last(log[t]).args.username))
        => LET es == Last(log[s])
               et == Last(log[t])
               name == to_lowercase(es.args.username)
               rows == {r \in users : r.username = name}
           IN /\ es.tag = "Ok" /\ et.tag = "Ok"
              /\ ~(es.backend_ok /\ et.backend_ok)
              /\ Cardinality(rows) <= 1
              /\ es.backend_ok
                 => /\ Cardinality(rows) = 1
                    /\ \A r \in rows : r.password_hash = es.args.password_hash
                    /\ es.args.password
                          \in Authenticating(name, {es.args.password, et.args.password})
                    /\ es.args.password # et.args.password
                       => Authenticating(name, {es.args.password, et.args.password})
                             = {es.args.password}

====
